---------------------------- MODULE Spec2Model ----------------------------
(***************************************************************************)
(* A model of the VFS core of the xv6 file-system lab: the in-memory inode *)
(* table (kernel/fs/fs.c), the xv6fs implementation of the operation table *)
(* (kernel/fs/xv6fs), the file layer (kernel/fs/file.c) and the system     *)
(* calls (kernel/fs/sysfile.c).                                            *)
(*                                                                         *)
(* Every C function is an operator from a kernel state (a record holding   *)
(* itable, ftable, the disk, the per-process tables) to the kernel state   *)
(* it leaves; a function's return value is left in the field r. A panic    *)
(* and a sleep that never ends set the field stop, after which every       *)
(* statement is skipped: the state is the one at the panic or the sleep.   *)
(*                                                                         *)
(* Scale. File offsets are counted in cells. A cell is one byte of a       *)
(* regular file, one directory entry (struct xv6fs_dentry) of a directory, *)
(* one block number of an indirect block; a block holds BSIZE cells. A     *)
(* directory entry is the number inum * NameBase + (index of its name).    *)
(*                                                                         *)
(* Behaviours. A behaviour starts in the state a sequence of system calls  *)
(* from boot leaves and goes on with MaxOps system calls of any kind. Some *)
(* of the sequences leave a process without a free descriptor, so that the *)
(* failure path of sys_open is within reach; SpecSpare leaves those out.   *)
(* SpecSparse starts on a disk image that holds a file with unmapped       *)
(* blocks, SpecFull on a disk with few free blocks or none. The properties *)
(* compose the operators of the model on the state reached.                *)
(*                                                                         *)
(* Names. In the kernel state a name is an index into Names. SpecNames     *)
(* has the bytes: skipelem, strncpy and strncmp on the caller's name       *)
(* buffer and on the names stored in one directory.                        *)
(*                                                                         *)
(* Tasks. In the behaviours above a system call runs from its entry to its *)
(* return with no other task in between. SpecIget and the specifications   *)
(* after it run the functions of the inode table and of the file table one *)
(* statement at a time, with the other task free to run between any two    *)
(* statements: pc holds the statement a task is at, loc its locals.        *)
(***************************************************************************)
EXTENDS Integers, Naturals, Sequences, FiniteSets, TLC

\* ---------------------------------------------------------------- sizes
\* Table sizes and disk geometry, scaled down.
NINODE == 4          \* slots of itable
NFILE == 3           \* slots of ftable
NOFILE == 2          \* descriptors of a process
NINODES == 5         \* sb.ninodes: disk inodes 1 .. NINODES-1
FSSIZE == 9          \* sb.size: disk blocks 0 .. FSSIZE-1
BSIZE == 3           \* cells of a block
NDIRECT == 2         \* direct block addresses of an inode
MaxOps == 2          \* system calls of one behaviour, after its first state
MaxByte == 2         \* bytes written are 1 .. MaxByte

NINDIRECT == BSIZE
MAXFILE == NDIRECT + NINDIRECT
\* sizeof(struct xv6fs_dentry), in cells
DESZ == 1

ROOTDEV == 1
ROOTINO == 1
T_DIR == 1
T_FILE == 2
T_DEVICE == 3
FD_DEVICE == 3
NDEV == 10
CONSOLE == 1
MAXOPBLOCKS == 10
DIRSIZ == 14
\* the byte that ends a C string
NUL == "NUL"
\* block 0 stands for the boot block, the superblock, the log, the inode
\* blocks and the bitmap: mkfs marks it in use
NMETA == 1

NULL == 0 - 1
Procs == {1, 2}
ISlots == 0 .. NINODE - 1
FSlots == 0 .. NFILE - 1
Fds == 0 .. NOFILE - 1
Inums == 1 .. NINODES - 1
Blocks == 0 .. FSSIZE - 1
Names == <<".", "..", "a", "b", "d">>
NameBase == Len(Names) + 1
NameIdx(str) == CHOOSE i \in 1 .. Len(Names) : Names[i] = str
DirentEnc(inum, str) == inum * NameBase + NameIdx(str)
DeInum(c) == c \div NameBase
DeNameIdx(c) == c % NameBase
\* uint arithmetic wraps; the word is scaled to 30 bits, the widest power of
\* two whose sums the model checker can still hold
UINT_SPAN == 1073741824
U32(x) == x % UINT_SPAN

Min(S) == CHOOSE x \in S : \A y \in S : x <= y
MinOf(a, b) == IF a < b THEN a ELSE b
ZeroBlock == [i \in 1 .. BSIZE |-> 0]
ZeroAddrs == [i \in 0 .. NDIRECT |-> 0]

VARIABLES
  itable,    \* itable.inode[NINODE]
  ftable,    \* ftable.file[NFILE]
  dinode,    \* the disk inodes
  bitmap,    \* the block bitmap
  data,      \* the contents of the disk blocks
  ofile,     \* myproc()->ofile, per process
  cwd,       \* myproc()->cwd, per process
  panicked,  \* "" or the message of the panic that halted the kernel
  hung,      \* the processes asleep for ever on a sleep-lock
  opened,    \* per file slot, the inum it was opened on (history, 0: never)
  nops,      \* the number of system calls made
  namebuf,   \* char name[DIRSIZ], the bytes of the caller's name buffer
  dirents,   \* the entries of a directory with the bytes of their names
  pc,        \* per task, the statement it is at inside a kernel function
  loc        \* per task, the arguments and local variables of that function

vars == <<itable, ftable, dinode, bitmap, data, ofile, cwd, panicked, hung, opened, nops,
          namebuf, dirents, pc, loc>>

\* The kernel state the operators below transform.
K ==
  [itable |-> itable, ftable |-> ftable, dinode |-> dinode, bitmap |-> bitmap,
   data |-> data, ofile |-> ofile, cwd |-> cwd, panicked |-> panicked,
   hung |-> hung, opened |-> opened, stop |-> FALSE, r |-> 0, name |-> "",
   out |-> <<>>, tx |-> 0, bare |-> FALSE, iputs |-> 0, devcall |-> <<>>, cross |-> FALSE,
   dentries |-> 0]

panic(s, msg) ==
  IF s.stop THEN s ELSE [s EXCEPT !.panicked = msg, !.stop = TRUE, !.r = NULL]

\* return v
Ret(s, v) == IF s.stop THEN s ELSE [s EXCEPT !.r = v]

\* ------------------------------------------------------------------ log
\* The transactions of the log: tx counts the begin_op of the running system
\* call that have no end_op yet.
begin_op(s) == IF s.stop THEN s ELSE [s EXCEPT !.tx = @ + 1]
end_op(s) == IF s.stop THEN s ELSE [s EXCEPT !.tx = @ - 1]

\* ------------------------------------------------------------ sleep-locks
\* the block an address array gives the bn-th block of a file, 0 if none
BlockOf(s, addrs, bn) ==
  IF bn < NDIRECT THEN addrs[bn]
  ELSE IF addrs[NDIRECT] = 0 THEN 0
  ELSE s.data[addrs[NDIRECT]][bn - NDIRECT + 1]

\* the cell at offset off of a file with the addresses addrs
CellOf(s, addrs, off) ==
  IF BlockOf(s, addrs, off \div BSIZE) = 0 THEN 0
  ELSE s.data[BlockOf(s, addrs, off \div BSIZE)][(off % BSIZE) + 1]

\* the inode in slot h is a directory, and the inode in slot c is named by
\* one of its entries other than "." and ".." or has no link yet (it is being
\* created in the directory)
ParentOf(s, h, c) ==
  /\ s.itable[h].type = T_DIR
  /\ s.itable[c].inum \in Inums
  /\ \/ s.dinode[s.itable[c].inum].nlink = 0
     \/ \E off \in 0 .. s.itable[h].size - 1 :
          /\ DeInum(CellOf(s, s.itable[h].addrs, off)) = s.itable[c].inum
          /\ DeNameIdx(CellOf(s, s.itable[h].addrs, off)) \notin {NameIdx("."), NameIdx("..")}

\* p takes the sleep-lock of slot ip while it holds that of a slot which is
\* not the parent directory of ip
Crossed(s, p, ip) == \E h \in ISlots : s.itable[h].lock = p /\ ~ParentOf(s, h, ip)

\* acquiresleep that takes the lock whoever holds it
AcquireAny(s, p, ip) ==
  IF s.stop THEN s ELSE [s EXCEPT !.itable[ip].lock = p, !.cross = @ \/ Crossed(s, p, ip)]

\* acquiresleep: sleeps while lk->locked. Between system calls a lock is held
\* only by a process that sleeps for ever, so a sleeper never wakes.
\* cross records a lock taken out of order by the running system call
acquiresleep(s, p, ip) ==
  IF s.stop THEN s
  ELSE IF s.itable[ip].lock # 0
       THEN [s EXCEPT !.hung = @ \cup {p}, !.stop = TRUE, !.r = NULL]
       ELSE [s EXCEPT !.itable[ip].lock = p, !.cross = @ \/ Crossed(s, p, ip)]

releasesleep(s, p, ip) ==
  IF s.stop THEN s ELSE [s EXCEPT !.itable[ip].lock = 0]

holdingsleep(s, p, ip) == s.itable[ip].lock = p

\* ------------------------------------------------------------ disk inodes
\* xv6fs_iupdate: the in-memory inode copied to its disk inode. It reads
\* inode->private: a null private is a load through a null pointer.
xv6fs_iupdate(s, ip) ==
  IF s.stop THEN s
  ELSE IF ~s.itable[ip].valid THEN panic(s, "kerneltrap")
  ELSE [s EXCEPT !.dinode[s.itable[ip].inum] =
          [type |-> s.itable[ip].type, major |-> s.itable[ip].major,
           minor |-> s.itable[ip].minor, nlink |-> s.itable[ip].nlink,
           size |-> s.itable[ip].size, addrs |-> s.itable[ip].addrs]]

\* the body shared by xv6fs_geti (first attachment) and xv6fs_update_lock:
\* private allocated and filled from the disk inode, ref set to 1
LoadInode(s, ip) ==
  [s EXCEPT !.itable[ip] =
     [@ EXCEPT !.valid = TRUE,
               !.ptype = s.dinode[s.itable[ip].inum].type,
               !.major = s.dinode[s.itable[ip].inum].major,
               !.minor = s.dinode[s.itable[ip].inum].minor,
               !.addrs = s.dinode[s.itable[ip].inum].addrs,
               !.type = s.dinode[s.itable[ip].inum].type,
               !.nlink = s.dinode[s.itable[ip].inum].nlink,
               !.size = s.dinode[s.itable[ip].inum].size,
               !.ref = 1]]

xv6fs_update_lock(s, ip) == IF s.stop THEN s ELSE LoadInode(s, ip)

\* xv6fs_release_inode and xv6fs_free_inode have the same body
FreePrivate(s, ip) ==
  IF s.stop \/ ~s.itable[ip].valid THEN s
  ELSE [s EXCEPT !.itable[ip] =
          [@ EXCEPT !.valid = FALSE, !.ptype = 0, !.major = 0, !.minor = 0,
                    !.addrs = ZeroAddrs, !.type = 0]]

xv6fs_release_inode(s, ip) == FreePrivate(s, ip)
xv6fs_free_inode(s, ip) == FreePrivate(s, ip)

\* -------------------------------------------------------------- itable
\* iget's scan without a match: every call takes an empty slot
IgetMiss(s, dev, inum) == {}

\* the slots iget's scan matches, and the slots it may recycle
IgetHit(s, dev, inum) ==
  {i \in ISlots : s.itable[i].ref > 0 /\ s.itable[i].dev = dev /\ s.itable[i].inum = inum}
IgetEmpty(s) == {i \in ISlots : s.itable[i].ref = 0}

iget(s, dev, inum) ==
  IF s.stop THEN s
  ELSE IF IgetHit(s, dev, inum) # {}
       THEN [s EXCEPT !.itable[Min(IgetHit(s, dev, inum))].ref = @ + 1,
                      !.r = Min(IgetHit(s, dev, inum))]
  ELSE IF IgetEmpty(s) = {} THEN panic(s, "iget: no inodes")
  ELSE [s EXCEPT !.itable[Min(IgetEmpty(s))] =
          [@ EXCEPT !.dev = dev, !.inum = inum, !.ref = 1, !.valid = FALSE,
                    !.ptype = 0, !.major = 0, !.minor = 0, !.addrs = ZeroAddrs],
          !.r = Min(IgetEmpty(s))]

idup(s, ip) ==
  IF s.stop THEN s ELSE [s EXCEPT !.itable[ip].ref = @ + 1, !.r = ip]

\* xv6fs_geti after its call of iget
GetiLoad(s, inc_ref) ==
  IF s.stop THEN s
  ELSE IF s.itable[s.r].valid
       THEN IF inc_ref THEN s ELSE [s EXCEPT !.itable[s.r].ref = @ - 1]
       ELSE LoadInode(s, s.r)

xv6fs_geti(s, dev, inum, inc_ref) == GetiLoad(iget(s, dev, inum), inc_ref)

\* ilock after acquiresleep: update_lock is called through ip->op
IlockLoad(s, ip) ==
  IF s.stop \/ s.itable[ip].valid THEN s
  ELSE IF ~s.itable[ip].op THEN panic(s, "kerneltrap")
  ELSE xv6fs_update_lock(s, ip)

\* ilock that takes the sleep-lock whoever holds it
IlockSteal(s, p, ip) ==
  IF s.stop THEN s
  ELSE IF ip = NULL THEN panic(s, "ilock")
  ELSE IF s.itable[ip].ref < 1 THEN panic(s, "ilock")
  ELSE IlockLoad(AcquireAny(s, p, ip), ip)

ilock(s, p, ip) ==
  IF s.stop THEN s
  ELSE IF ip = NULL THEN panic(s, "ilock")
  ELSE IF s.itable[ip].ref < 1 THEN panic(s, "ilock")
  ELSE IlockLoad(acquiresleep(s, p, ip), ip)

\* iunlock without its checks
IunlockAny(s, p, ip) == releasesleep(s, p, ip)

iunlock(s, p, ip) ==
  IF s.stop THEN s
  ELSE IF ip = NULL THEN panic(s, "iunlock: no inode")
  ELSE IF ~holdingsleep(s, p, ip) \/ s.itable[ip].ref < 1
       THEN IF holdingsleep(s, p, ip) THEN panic(s, "iunlock: no lock")
            ELSE IF s.itable[ip].ref < 1 THEN panic(s, "iunlock: no ref")
            ELSE panic(s, "iunlock")
  ELSE releasesleep(s, p, ip)

\* -------------------------------------------------------------- blocks
bzero(s, bno) == [s EXCEPT !.data[bno] = ZeroBlock]

FreeBlocks(s) == {b \in Blocks : ~s.bitmap[b]}

\* balloc without the marking of the bit
BallocNoMark(s) ==
  IF s.stop THEN s
  ELSE IF FreeBlocks(s) = {} THEN [s EXCEPT !.r = 0]
  ELSE Ret(bzero(s, Min(FreeBlocks(s))), Min(FreeBlocks(s)))

balloc(s) ==
  IF s.stop THEN s
  ELSE IF FreeBlocks(s) = {} THEN [s EXCEPT !.r = 0]
  ELSE Ret(bzero([s EXCEPT !.bitmap[Min(FreeBlocks(s))] = TRUE], Min(FreeBlocks(s))),
           Min(FreeBlocks(s)))

\* bfree without the clearing of the bit
BfreeNoClear(s, b) ==
  IF s.stop THEN s
  ELSE IF ~s.bitmap[b] THEN panic(s, "freeing free block")
  ELSE s

bfree(s, b) ==
  IF s.stop THEN s
  ELSE IF ~s.bitmap[b] THEN panic(s, "freeing free block")
  ELSE [s EXCEPT !.bitmap[b] = FALSE]

\* ip->addrs[i] = the block balloc returned, unless it returned 0
BmapSet(s, ip, i) ==
  IF s.stop \/ s.r = 0 THEN s ELSE [s EXCEPT !.itable[ip].addrs[i] = s.r]

\* a[j] = the block balloc returned, unless it returned 0
BmapEntry(s, ind, j) ==
  IF s.stop \/ s.r = 0 THEN s ELSE [s EXCEPT !.data[ind][j] = s.r]

\* bmap with the indirect block s.r (0: none could be allocated)
BmapIndirect(s, j) ==
  IF s.stop \/ s.r = 0 THEN s
  ELSE IF s.data[s.r][j] # 0 THEN [s EXCEPT !.r = s.data[s.r][j]]
  ELSE BmapEntry(balloc(s), s.r, j)

\* bmap without allocation: the block mapped, or 0
BmapLookup(s, ip, bn) ==
  IF s.stop THEN s
  ELSE IF bn < NDIRECT THEN [s EXCEPT !.r = s.itable[ip].addrs[bn]]
  ELSE IF bn - NDIRECT < NINDIRECT
       THEN [s EXCEPT !.r = IF s.itable[ip].addrs[NDIRECT] = 0 THEN 0
                            ELSE s.data[s.itable[ip].addrs[NDIRECT]][bn - NDIRECT + 1]]
  ELSE panic(s, "bmap: out of range")

\* bmap: the disk block of the bn-th block of the inode in slot ip, allocated
\* if there is none; r = 0 when the disk is full.
bmap(s, ip, bn) ==
  IF s.stop THEN s
  ELSE IF bn < NDIRECT
       THEN IF s.itable[ip].addrs[bn] # 0 THEN [s EXCEPT !.r = s.itable[ip].addrs[bn]]
            ELSE BmapSet(balloc(s), ip, bn)
  ELSE IF bn - NDIRECT < NINDIRECT
       THEN BmapIndirect(IF s.itable[ip].addrs[NDIRECT] # 0
                         THEN [s EXCEPT !.r = s.itable[ip].addrs[NDIRECT]]
                         ELSE BmapSet(balloc(s), ip, NDIRECT),
                         bn - NDIRECT + 1)
  ELSE panic(s, "bmap: out of range")

\* ip->addrs[i] = 0
ClearAddr(s, ip, i) == IF s.stop THEN s ELSE [s EXCEPT !.itable[ip].addrs[i] = 0]

RECURSIVE FreeIndirect(_, _, _)
FreeIndirect(s, ind, j) ==
  IF j > NINDIRECT \/ s.stop THEN s
  ELSE FreeIndirect(IF s.data[ind][j] # 0 THEN bfree(s, s.data[ind][j]) ELSE s, ind, j + 1)

RECURSIVE FreeDirect(_, _, _)
FreeDirect(s, ip, i) ==
  IF i >= NDIRECT \/ s.stop THEN s
  ELSE FreeDirect(IF s.itable[ip].addrs[i] # 0
                  THEN ClearAddr(bfree(s, s.itable[ip].addrs[i]), ip, i)
                  ELSE s, ip, i + 1)

\* TruncIndirect without ip->addrs[NDIRECT] = 0
TruncIndirectKept(s, ip) ==
  IF s.stop \/ s.itable[ip].addrs[NDIRECT] = 0 THEN s
  ELSE bfree(FreeIndirect(s, s.itable[ip].addrs[NDIRECT], 1), s.itable[ip].addrs[NDIRECT])

\* the second half of xv6fs_itrunc: the indirect block and its entries
TruncIndirect(s, ip) ==
  IF s.stop \/ s.itable[ip].addrs[NDIRECT] = 0 THEN s
  ELSE ClearAddr(bfree(FreeIndirect(s, s.itable[ip].addrs[NDIRECT], 1),
                       s.itable[ip].addrs[NDIRECT]), ip, NDIRECT)

SetSize(s, ip, size) == IF s.stop THEN s ELSE [s EXCEPT !.itable[ip].size = size]

xv6fs_itrunc(s, ip) ==
  IF s.stop THEN s
  ELSE IF ~s.itable[ip].valid THEN panic(s, "kerneltrap")
  ELSE xv6fs_iupdate(SetSize(TruncIndirect(FreeDirect(s, ip, 0), ip), ip, 0), ip)

\* ------------------------------------------------------- inode content
\* m = min(n - tot, BSIZE - off%BSIZE)
Piece(off, left) == MinOf(left, BSIZE - (off % BSIZE))

\* the loop of xv6fs_readi: tot cells delivered so far, acc the cells;
\* ReadBlock is its body after the call of bmap
RECURSIVE ReadLoop(_, _, _, _, _, _)
RECURSIVE ReadBlock(_, _, _, _, _, _)
ReadBlock(s, ip, off, n, tot, acc) ==
  IF s.stop THEN s
  ELSE IF s.r = 0 THEN [s EXCEPT !.r = tot, !.out = acc]
  ELSE ReadLoop(s, ip, off + Piece(off, n - tot), n, tot + Piece(off, n - tot),
                acc \o SubSeq(s.data[s.r], (off % BSIZE) + 1,
                              (off % BSIZE) + Piece(off, n - tot)))

ReadLoop(s, ip, off, n, tot, acc) ==
  IF s.stop THEN s
  ELSE IF tot >= n THEN [s EXCEPT !.r = tot, !.out = acc]
  ELSE ReadBlock(bmap(s, ip, off \div BSIZE), ip, off, n, tot, acc)

xv6fs_readi(s, ip, off, n) ==
  IF s.stop THEN s
  ELSE IF off > s.itable[ip].size \/ U32(off + n) < off THEN [s EXCEPT !.r = 0, !.out = <<>>]
  ELSE ReadLoop(s, ip, off,
                IF U32(off + n) > s.itable[ip].size THEN s.itable[ip].size - off ELSE n,
                0, <<>>)

\* CopyIn without the advance of src: every piece is taken from its start
CopyFromStart(blk, off, src, tot, m) ==
  [i \in 1 .. BSIZE |->
     IF i > (off % BSIZE) /\ i <= (off % BSIZE) + m THEN src[i - (off % BSIZE)]
     ELSE blk[i]]

\* the cells of block blk with the m cells of src from tot on copied to off%BSIZE
CopyIn(blk, off, src, tot, m) ==
  [i \in 1 .. BSIZE |->
     IF i > (off % BSIZE) /\ i <= (off % BSIZE) + m THEN src[tot + i - (off % BSIZE)]
     ELSE blk[i]]

\* the loop of xv6fs_writei; r = <<tot, off>> when it ends; WriteBlock is
\* its body after the call of bmap
RECURSIVE WriteLoop(_, _, _, _, _)
RECURSIVE WriteBlock(_, _, _, _, _)
WriteBlock(s, ip, off, src, tot) ==
  IF s.stop THEN s
  ELSE IF s.r = 0 THEN [s EXCEPT !.r = <<tot, off>>]
  ELSE WriteLoop([s EXCEPT !.data[s.r] = CopyIn(@, off, src, tot, Piece(off, Len(src) - tot))],
                 ip, off + Piece(off, Len(src) - tot), src,
                 tot + Piece(off, Len(src) - tot))

WriteLoop(s, ip, off, src, tot) ==
  IF s.stop THEN s
  ELSE IF tot >= Len(src) THEN [s EXCEPT !.r = <<tot, off>>]
  ELSE WriteBlock(bmap(s, ip, off \div BSIZE), ip, off, src, tot)

\* WriteEnd without the new size
WriteEndKept(s, ip) == IF s.stop THEN s ELSE Ret(xv6fs_iupdate(s, ip), s.r[1])

\* xv6fs_writei after its loop: the size, the inode written back, tot returned
WriteEnd(s, ip) ==
  IF s.stop THEN s
  ELSE Ret(xv6fs_iupdate(IF s.r[2] > s.itable[ip].size
                         THEN [s EXCEPT !.itable[ip].size = s.r[2]] ELSE s, ip),
           s.r[1])

\* xv6fs_writei(ino, user_src, src, off, n): the n cells of src; a count the
\* range tests reject needs no cells
WriteCount(s, ip, off, src, n) ==
  IF s.stop THEN s
  ELSE IF off > s.itable[ip].size \/ U32(off + n) < off THEN [s EXCEPT !.r = -1]
  ELSE IF U32(off + n) > MAXFILE * BSIZE THEN [s EXCEPT !.r = -1]
  ELSE WriteEnd(WriteLoop(s, ip, off, src, 0), ip)

\* xv6fs_writei(ino, user_src, src, off, n) with n = Len(src)
xv6fs_writei(s, ip, off, src) == WriteCount(s, ip, off, src, Len(src))

\* ---------------------------------------------------------------- iput
SetType(s, ip, type) == IF s.stop THEN s ELSE [s EXCEPT !.itable[ip].type = type]

\* iput's first branch: no links and no other reference
IputFree(s, p, ip) ==
  IF s.itable[ip].ref = 1 /\ s.itable[ip].nlink = 0
  THEN releasesleep(
         xv6fs_free_inode(
           xv6fs_iupdate(xv6fs_itrunc(SetType(acquiresleep(s, p, ip), ip, 0), ip), ip),
           ip),
         p, ip)
  ELSE s

\* iput's second branch: links, and no other reference
IputRelease(s, p, ip) ==
  IF ~s.stop /\ s.itable[ip].ref = 1 /\ s.itable[ip].nlink > 0
  THEN releasesleep(xv6fs_release_inode(xv6fs_iupdate(acquiresleep(s, p, ip), ip), ip), p, ip)
  ELSE s

\* ip->ref--
IputDrop(s, ip) == IF s.stop THEN s ELSE [s EXCEPT !.itable[ip].ref = @ - 1]

\* iput entered: iputs counts the entries of the running system call, bare
\* records an entry outside every transaction
IputEntered(s) == [s EXCEPT !.iputs = @ + 1, !.bare = @ \/ s.tx = 0]

iput(s, p, ip) ==
  IF s.stop THEN s
  ELSE IF ~s.itable[ip].valid THEN IputEntered(s)
  ELSE IputDrop(IputRelease(IputFree(IputEntered(s), p, ip), p, ip), ip)

iunlockput(s, p, ip) == iput(iunlock(s, p, ip), p, ip)

\* ---------------------------------------------------------- directories
\* namecmp: strncmp over DIRSIZ bytes of two names held as indices
namecmp(idx, str) == IF idx = NameIdx(str) THEN 0 ELSE 1

\* ino->op = dp->op
SetOp(s) == IF s.stop THEN s ELSE [s EXCEPT !.itable[s.r].op = TRUE]

\* the loop of xv6fs_dirlookup; LookupEntry is its body after the readi
\* struct dentry *de = kalloc(): dentries counts the dentry buffers the
\* running system call has allocated and not freed
kalloc(s) == IF s.stop THEN s ELSE [s EXCEPT !.dentries = @ + 1]
\* kfree(de)
kfree(s) == IF s.stop THEN s ELSE [s EXCEPT !.dentries = @ - 1]

RECURSIVE LookupLoop(_, _, _, _)
RECURSIVE LookupEntry(_, _, _, _)
LookupEntry(s, dp, name, off) ==
  IF s.stop THEN s
  ELSE IF s.r # DESZ THEN panic(s, "dirlookup read")
  ELSE IF DeInum(s.out[1]) = 0 THEN LookupLoop(s, dp, name, off + DESZ)
  ELSE IF namecmp(DeNameIdx(s.out[1]), name) = 0
       THEN SetOp(xv6fs_geti(kalloc(s), s.itable[dp].dev, DeInum(s.out[1]), TRUE))
       ELSE LookupLoop(s, dp, name, off + DESZ)

LookupLoop(s, dp, name, off) ==
  IF s.stop THEN s
  ELSE IF off >= s.itable[dp].size THEN [s EXCEPT !.r = NULL]
  ELSE LookupEntry(xv6fs_readi(s, dp, off, DESZ), dp, name, off)

\* xv6fs_dirlookup: r = the slot of the inode the entry names (the dentry's
\* inode, with one reference taken), or NULL
xv6fs_dirlookup(s, dp, name) ==
  IF s.stop THEN s
  ELSE IF s.itable[dp].type # T_DIR THEN panic(s, "dirlookup not DIR")
  ELSE LookupLoop(s, dp, name, 0)

\* the scan of xv6fs_link for an entry with inum 0; r = its offset, or size
RECURSIVE EmptyLoop(_, _, _)
RECURSIVE EmptyEntry(_, _, _)
EmptyEntry(s, dp, off) ==
  IF s.stop THEN s
  ELSE IF s.r # DESZ THEN panic(s, "dirlink read")
  ELSE IF DeInum(s.out[1]) = 0 THEN [s EXCEPT !.r = off]
  ELSE EmptyLoop(s, dp, off + DESZ)

EmptyLoop(s, dp, off) ==
  IF s.stop THEN s
  ELSE IF off >= s.itable[dp].size THEN [s EXCEPT !.r = off]
  ELSE EmptyEntry(xv6fs_readi(s, dp, off, DESZ), dp, off)

\* xv6fs_link from the write of the entry at the offset s.r
LinkWrite(s, dp, son, name) ==
  IF s.stop THEN s ELSE xv6fs_writei(s, dp, s.r, <<DirentEnc(s.itable[son].inum, name)>>)

LinkRet(s) == IF s.stop THEN s ELSE [s EXCEPT !.r = IF s.r # DESZ THEN -1 ELSE 0]

\* xv6fs_link after its xv6fs_dirlookup
LinkLooked(s, p, dp, son, name) ==
  IF s.stop THEN s
  ELSE IF s.r # NULL THEN Ret(iput(s, p, s.r), -1)
  ELSE LinkRet(LinkWrite(EmptyLoop(s, dp, 0), dp, son, name))

\* xv6fs_link(target) with target->parent = dp, target->inode = son,
\* target->name = name
xv6fs_link(s, p, dp, son, name) == LinkLooked(xv6fs_dirlookup(s, dp, name), p, dp, son, name)

\* the loop of xv6fs_unlink; UnlinkEntry is its body after the readi,
\* UnlinkWritten after the writei
RECURSIVE UnlinkLoop(_, _, _, _)
RECURSIVE UnlinkEntry(_, _, _, _)
RECURSIVE UnlinkWritten(_, _, _, _)
UnlinkWritten(s, dp, name, off) ==
  IF s.stop THEN s
  ELSE IF s.r # DESZ THEN panic(s, "unlink write")
  ELSE UnlinkLoop(s, dp, name, off + DESZ)

UnlinkEntry(s, dp, name, off) ==
  IF s.stop THEN s
  ELSE IF s.r # DESZ THEN panic(s, "dirlink read in unlink")
  ELSE IF namecmp(DeNameIdx(s.out[1]), name) = 0
       THEN UnlinkWritten(xv6fs_writei(s, dp, off, <<0>>), dp, name, off)
       ELSE UnlinkLoop(s, dp, name, off + DESZ)

UnlinkLoop(s, dp, name, off) ==
  IF s.stop THEN s
  ELSE IF off >= s.itable[dp].size THEN [s EXCEPT !.r = 0]
  ELSE UnlinkEntry(xv6fs_readi(s, dp, off, DESZ), dp, name, off)

xv6fs_unlink(s, dp, name) == UnlinkLoop(s, dp, name, 0)

RECURSIVE EmptyDirLoop(_, _, _)
RECURSIVE EmptyDirEntry(_, _, _)
EmptyDirEntry(s, dir, off) ==
  IF s.stop THEN s
  ELSE IF s.r # DESZ THEN panic(s, "isdirempty: readi")
  ELSE IF DeInum(s.out[1]) # 0 THEN [s EXCEPT !.r = 0]
  ELSE EmptyDirLoop(s, dir, off + DESZ)

EmptyDirLoop(s, dir, off) ==
  IF s.stop THEN s
  ELSE IF off >= s.itable[dir].size THEN [s EXCEPT !.r = 1]
  ELSE EmptyDirEntry(xv6fs_readi(s, dir, off, DESZ), dir, off)

\* xv6fs_isdirempty with the scan started at the first entry
EmptyFromStart(s, dir) == EmptyDirLoop(s, dir, 0)

xv6fs_isdirempty(s, dir) == EmptyDirLoop(s, dir, 2 * DESZ)

\* the disk inodes with type 0
FreeInums(s) == {i \in Inums : s.dinode[i].type = 0}

\* xv6fs_ialloc after its xv6fs_geti: op set, and private allocated if null
IallocGot(s) ==
  IF s.stop THEN s ELSE [s EXCEPT !.itable[s.r].op = TRUE, !.itable[s.r].valid = TRUE]

\* xv6fs_ialloc: r = the slot of the new inode, or NULL
xv6fs_ialloc(s) ==
  IF s.stop THEN s
  ELSE IF FreeInums(s) = {} THEN [s EXCEPT !.r = NULL]
  ELSE IallocGot(xv6fs_geti([s EXCEPT !.dinode[Min(FreeInums(s))] =
                               [type |-> 3, major |-> 0, minor |-> 0, nlink |-> 0,
                                size |-> 0, addrs |-> ZeroAddrs]],
                            ROOTDEV, Min(FreeInums(s)), TRUE))

xv6fs_create(s, ip, major, minor) ==
  IF s.stop THEN s
  ELSE IF ~s.itable[ip].valid THEN panic(s, "kerneltrap")
  ELSE [s EXCEPT !.itable[ip].major = major, !.itable[ip].minor = minor, !.r = 0]

\* ---------------------------------------------------------------- paths
\* A path is [abs, elems]: whether it starts with a slash, and its elements
\* as skipelem yields them.
SetName(s, name) == IF s.stop THEN s ELSE [s EXCEPT !.name = name]

\* the loop of namex: NamexLocked is its body after ilock, NamexNext after
\* the dirlookup
RECURSIVE NamexLoop(_, _, _, _, _)
RECURSIVE NamexLocked(_, _, _, _, _)
RECURSIVE NamexNext(_, _, _, _, _)
NamexNext(s, p, ip, elems, want_parent) ==
  IF s.stop THEN s
  ELSE IF s.r = NULL THEN Ret(iunlockput(s, p, ip), NULL)
  ELSE NamexLoop(iunlockput(s, p, ip), p, s.r, Tail(elems), want_parent)

NamexLocked(s, p, ip, elems, want_parent) ==
  IF s.stop THEN s
  ELSE IF s.itable[ip].type # T_DIR THEN Ret(iunlockput(s, p, ip), NULL)
  ELSE IF want_parent /\ Tail(elems) = <<>> THEN Ret(iunlock(s, p, ip), ip)
  ELSE NamexNext(xv6fs_dirlookup(s, ip, Head(elems)), p, ip, elems, want_parent)

NamexLoop(s, p, ip, elems, want_parent) ==
  IF s.stop THEN s
  ELSE IF elems = <<>>
       THEN IF want_parent THEN Ret(iput(s, p, ip), NULL) ELSE Ret(s, ip)
  ELSE NamexLocked(ilock(SetName(s, Head(elems)), p, ip), p, ip, elems, want_parent)

\* namex after its iget or idup
NamexFrom(s, p, path, want_parent) ==
  IF s.stop THEN s ELSE NamexLoop(s, p, s.r, path.elems, want_parent)

namex(s, p, path, want_parent) ==
  NamexFrom(IF path.abs THEN iget(s, ROOTDEV, ROOTINO) ELSE idup(s, s.cwd[p]),
            p, path, want_parent)

namei(s, p, path) == namex(s, p, path, FALSE)
nameiparent(s, p, path) == namex(s, p, path, TRUE)

\* ----------------------------------------------------------- file layer
\* An open mode is [acc, create, trunc]: omode & 3, omode & O_CREATE,
\* omode & O_TRUNC.
O_RDONLY == [acc |-> 0, create |-> FALSE, trunc |-> FALSE]
Readable(omode) == omode.acc # 1
Writable(omode) == omode.acc = 1 \/ omode.acc = 2

FreeFiles(s) == {f \in FSlots : s.ftable[f].ref = 0}

filealloc(s) ==
  IF s.stop THEN s
  ELSE IF FreeFiles(s) = {} THEN [s EXCEPT !.r = NULL]
  ELSE [s EXCEPT !.ftable[Min(FreeFiles(s))].ref = 1, !.r = Min(FreeFiles(s))]

filedup(s, f) ==
  IF s.stop THEN s
  ELSE IF s.ftable[f].ref < 1 THEN panic(s, "filedup")
  ELSE [s EXCEPT !.ftable[f].ref = @ + 1, !.r = f]

\* xv6fs_open after its filealloc; opened keeps the inum of f->inode as a
\* history of the file slot
OpenAlloc(s, ino, omode) ==
  IF s.stop \/ s.r = NULL THEN s
  ELSE [s EXCEPT !.ftable[s.r] =
          [@ EXCEPT !.off = IF s.itable[ino].ptype = T_DEVICE THEN @ ELSE 0,
                    !.inode = ino, !.priv = TRUE,
                    !.readable = Readable(omode),
                    !.writable = Writable(omode)],
          !.opened[s.r] = s.itable[ino].inum]

\* xv6fs_open reads the types and the major number of inode->private
xv6fs_open(s, ino, omode) ==
  IF s.stop THEN s
  ELSE IF ~s.itable[ino].valid THEN panic(s, "kerneltrap")
  ELSE IF s.itable[ino].ptype = T_DEVICE
          /\ (s.itable[ino].major < 0 \/ s.itable[ino].major >= NDEV)
       THEN [s EXCEPT !.r = NULL]
  ELSE OpenAlloc(filealloc(s), ino, omode)

\* xv6fs_close after f->ref = 0. A file with private set and no inode is a
\* pipe end, closed by pipeclose, which is outside the model
CloseLast(s, p, f) ==
  IF s.ftable[f].inode = NULL
  THEN IF s.ftable[f].priv THEN s ELSE panic(s, "kerneltrap")
  ELSE iput(s, p, s.ftable[f].inode)

\* xv6fs_close that releases on every call
CloseEach(s, p, f) ==
  IF s.stop THEN s
  ELSE IF s.ftable[f].ref < 1 THEN panic(s, "fileclose")
  ELSE CloseLast([s EXCEPT !.ftable[f].ref = @ - 1], p, f)

xv6fs_close(s, p, f) ==
  IF s.stop THEN s
  ELSE IF s.ftable[f].ref < 1 THEN panic(s, "fileclose")
  ELSE IF s.ftable[f].ref - 1 > 0 THEN [s EXCEPT !.ftable[f].ref = @ - 1]
  ELSE CloseLast([s EXCEPT !.ftable[f].ref = 0], p, f)

\* fileclose calls through f->op, which only sys_open sets: on a slot no
\* sys_open completed on, the call goes through a null pointer
fileclose(s, p, f) ==
  IF s.stop THEN s
  ELSE IF ~s.ftable[f].op THEN panic(s, "kerneltrap")
  ELSE xv6fs_close(s, p, f)

stati(s, ip) ==
  [dev |-> s.itable[ip].dev, ino |-> s.itable[ip].inum, type |-> s.itable[ip].type,
   nlink |-> s.itable[ip].nlink, size |-> s.itable[ip].size]

\* StatLocked without the iunlock
StatHeld(s, p, ip) ==
  IF s.stop THEN s ELSE Ret([s EXCEPT !.out = <<stati(s, ip)>>], 0)

\* filestat after its ilock
StatLocked(s, p, ip) ==
  IF s.stop THEN s ELSE Ret(iunlock([s EXCEPT !.out = <<stati(s, ip)>>], p, ip), 0)

filestat(s, p, f) == StatLocked(ilock(s, p, s.ftable[f].inode), p, s.ftable[f].inode)

\* AddOff without the advance of the offset
OffKept(s, f) == s

\* f->off += r, if r > 0
AddOff(s, f) ==
  IF ~s.stop /\ s.r > 0 THEN [s EXCEPT !.ftable[f].off = @ + s.r] ELSE s

\* devsw[row].read(user, addr, n) and devsw[row].write(user, addr, n): the
\* devices are outside the model, a device read or write moves n bytes;
\* devcall keeps the calls made
DevCall(s, kind, row, user, n) ==
  [s EXCEPT !.r = n, !.devcall = Append(@, [kind |-> kind, row |-> row, user |-> user])]

fileread(s, p, f, n) ==
  IF s.stop THEN s
  ELSE IF ~s.ftable[f].readable THEN [s EXCEPT !.r = -1]
  ELSE IF s.ftable[f].inode = NULL THEN panic(s, "kerneltrap")
  ELSE IF s.itable[s.ftable[f].inode].type = FD_DEVICE THEN DevCall(s, "read", CONSOLE, 1, n)
  ELSE iunlock(AddOff(xv6fs_readi(ilock(s, p, s.ftable[f].inode), s.ftable[f].inode,
                                  s.ftable[f].off, n), f),
               p, s.ftable[f].inode)

\* max of filewrite
WriteChunk == ((MAXOPBLOCKS - 1 - 1 - 2) \div 2) * BSIZE

\* the loop of filewrite; r = i when it ends. FileWriteNext is its body
\* after the iunlock, n1 the bytes asked of the write
RECURSIVE FileWriteLoop(_, _, _, _, _)
RECURSIVE FileWriteNext(_, _, _, _, _, _)
FileWriteNext(s, p, f, src, i, n1) ==
  IF s.stop THEN s
  ELSE IF s.r # n1 THEN [s EXCEPT !.r = i]
  ELSE FileWriteLoop(s, p, f, src, i + s.r)

FileWriteLoop(s, p, f, src, i) ==
  IF s.stop THEN s
  ELSE IF i >= Len(src) THEN [s EXCEPT !.r = i]
  ELSE FileWriteNext(
         iunlock(AddOff(xv6fs_writei(ilock(s, p, s.ftable[f].inode), s.ftable[f].inode,
                                     s.ftable[f].off,
                                     SubSeq(src, i + 1, i + MinOf(Len(src) - i, WriteChunk))),
                        f),
                 p, s.ftable[f].inode),
         p, f, src, i, MinOf(Len(src) - i, WriteChunk))

\* the end of filewrite returning the bytes written
FileWriteCount(s, n) == s

\* ret = (i == n ? n : -1)
FileWriteRet(s, n) == IF s.stop THEN s ELSE [s EXCEPT !.r = IF s.r = n THEN n ELSE -1]

\* filewrite(f, addr, n) of the n = Len(src) bytes src at addr
filewrite(s, p, f, src) ==
  IF s.stop THEN s
  ELSE IF ~s.ftable[f].writable THEN [s EXCEPT !.r = -1]
  ELSE IF s.ftable[f].inode = NULL THEN panic(s, "kerneltrap")
  ELSE IF s.itable[s.ftable[f].inode].type = FD_DEVICE
       THEN DevCall(s, "write", CONSOLE, 1, Len(src))
  ELSE FileWriteRet(FileWriteLoop(s, p, f, src, 0), Len(src))

\* ---------------------------------------------------------- system calls
argfd(s, p, fd) == IF fd \in Fds THEN s.ofile[p][fd] ELSE NULL

FreeFds(s, p) == {fd \in Fds : s.ofile[p][fd] = NULL}

fdalloc(s, p, f) ==
  IF s.stop THEN s
  ELSE IF FreeFds(s, p) = {} THEN [s EXCEPT !.r = -1]
  ELSE [s EXCEPT !.ofile[p][Min(FreeFds(s, p))] = f, !.r = Min(FreeFds(s, p))]

\* sys_dup after its fdalloc
DupFd(s, f) == IF s.stop \/ s.r < 0 THEN s ELSE Ret(filedup(s, f), s.r)

sys_dup(s, p, fd) ==
  IF argfd(s, p, fd) = NULL THEN [s EXCEPT !.r = -1]
  ELSE DupFd(fdalloc(s, p, argfd(s, p, fd)), argfd(s, p, fd))

sys_read(s, p, fd, n) ==
  IF argfd(s, p, fd) = NULL THEN [s EXCEPT !.r = -1] ELSE fileread(s, p, argfd(s, p, fd), n)

sys_write(s, p, fd, src) ==
  IF argfd(s, p, fd) = NULL THEN [s EXCEPT !.r = -1] ELSE filewrite(s, p, argfd(s, p, fd), src)

sys_close(s, p, fd) ==
  IF argfd(s, p, fd) = NULL THEN [s EXCEPT !.r = -1]
  ELSE Ret(fileclose([s EXCEPT !.ofile[p][fd] = NULL], p, argfd(s, p, fd)), 0)

sys_fstat(s, p, fd) ==
  IF argfd(s, p, fd) = NULL THEN [s EXCEPT !.r = -1] ELSE filestat(s, p, argfd(s, p, fd))
\* AddNlink without the change
NlinkKept(s, ip, d) == s

\* ip->nlink += d
AddNlink(s, ip, d) == IF s.stop THEN s ELSE [s EXCEPT !.itable[ip].nlink = @ + d]

\* the label bad without the nlink--
LinkBadPut(s, p, ip) == Ret(iput(s, p, ip), -1)

\* the label bad of sys_link
LinkBad(s, p, ip) ==
  Ret(iunlockput(xv6fs_iupdate(AddNlink(ilock(s, p, ip), ip, -1), ip), p, ip), -1)

\* sys_link after dp->op->link
LinkDone(s, p, dp, ip) ==
  IF s.stop THEN s
  ELSE IF s.r < 0 THEN LinkBad(kfree(iunlockput(s, p, dp)), p, ip)
  ELSE Ret(iput(iunlockput(kfree(s), p, dp), p, ip), 0)

\* sys_link after ilock(dp)
LinkDir(s, p, dp, ip) ==
  IF s.stop THEN s
  ELSE IF s.itable[dp].dev # s.itable[ip].dev
       THEN LinkBad(kfree(iunlockput(kalloc(s), p, dp)), p, ip)
  ELSE LinkDone(xv6fs_link(kalloc(s), p, dp, ip, s.name), p, dp, ip)

\* sys_link after nameiparent(new, name)
LinkParent(s, p, ip) ==
  IF s.stop THEN s
  ELSE IF s.r = NULL THEN LinkBad(s, p, ip)
  ELSE LinkDir(ilock(s, p, s.r), p, s.r, ip)

\* sys_link after ilock(ip)
LinkLocked(s, p, ip, new) ==
  IF s.stop THEN s
  ELSE IF s.itable[ip].type = T_DIR THEN Ret(iunlockput(s, p, ip), -1)
  ELSE LinkParent(nameiparent(iunlock(xv6fs_iupdate(AddNlink(s, ip, 1), ip), p, ip), p, new),
                  p, ip)

\* sys_link after namei(old)
LinkOld(s, p, new) ==
  IF s.stop THEN s
  ELSE IF s.r = NULL THEN [s EXCEPT !.r = -1]
  ELSE LinkLocked(ilock(s, p, s.r), p, s.r, new)

sys_link(s, p, old, new) == LinkOld(namei(s, p, old), p, new)

\* sys_unlink from ip->nlink-- on
UnlinkTail(s, p, ip) ==
  Ret(iunlockput(xv6fs_iupdate(AddNlink(s, ip, -1), ip), p, ip), 0)

\* if(ip->type == T_DIR){ dp->nlink--; write_inode(dp) }
UnlinkDotDot(s, dp, ip) ==
  IF ~s.stop /\ s.itable[ip].type = T_DIR THEN xv6fs_iupdate(AddNlink(s, dp, -1), dp) ELSE s

\* sys_unlink from dp->op->unlink on
UnlinkRemove(s, p, dp, ip) ==
  UnlinkTail(iunlockput(UnlinkDotDot(kfree(xv6fs_unlink(kalloc(s), dp, s.name)), dp, ip),
                        p, dp), p, ip)

\* sys_unlink after isdirempty(ip)
UnlinkDir(s, p, dp, ip) ==
  IF s.stop THEN s
  ELSE IF s.r = 0 THEN Ret(iunlockput(iunlockput(s, p, ip), p, dp), -1)
  ELSE UnlinkRemove(s, p, dp, ip)

\* sys_unlink after ilock(ip)
UnlinkInode(s, p, dp, ip) ==
  IF s.stop THEN s
  ELSE IF s.itable[ip].nlink < 1 THEN panic(s, "unlink: nlink < 1")
  ELSE IF s.itable[ip].type = T_DIR THEN UnlinkDir(xv6fs_isdirempty(s, ip), p, dp, ip)
  ELSE UnlinkRemove(s, p, dp, ip)

\* sys_unlink after dirlookup
UnlinkFound(s, p, dp) ==
  IF s.stop THEN s
  ELSE IF s.r = NULL THEN Ret(iunlockput(s, p, dp), -1)
  ELSE UnlinkInode(ilock(s, p, s.r), p, dp, s.r)

\* sys_unlink after ilock(dp)
UnlinkLocked(s, p, dp) ==
  IF s.stop THEN s
  ELSE IF namecmp(NameIdx(s.name), ".") = 0 \/ namecmp(NameIdx(s.name), "..") = 0
       THEN Ret(iunlockput(s, p, dp), -1)
  ELSE UnlinkFound(xv6fs_dirlookup(s, dp, s.name), p, dp)

\* sys_unlink after nameiparent(path, name)
UnlinkParent(s, p) ==
  IF s.stop THEN s
  ELSE IF s.r = NULL THEN [s EXCEPT !.r = -1]
  ELSE UnlinkLocked(ilock(s, p, s.r), p, s.r)

sys_unlink(s, p, path) == UnlinkParent(nameiparent(s, p, path), p)

\* CreateFail without ip->nlink = 0
CreateFailLinked(s, p, dp, ip) ==
  Ret(iunlockput(iunlockput(xv6fs_iupdate(s, ip), p, ip), p, dp), NULL)

\* the label fail of create
CreateFail(s, p, dp, ip) ==
  Ret(iunlockput(iunlockput(xv6fs_iupdate(
        IF s.stop THEN s ELSE [s EXCEPT !.itable[ip].nlink = 0], ip), p, ip), p, dp),
      NULL)

\* if(type == T_DIR){ dp->nlink++; write_inode(dp) }
CreateUp(s, dp, type) ==
  IF ~s.stop /\ type = T_DIR THEN xv6fs_iupdate(AddNlink(s, dp, 1), dp) ELSE s

\* create after dp->op->create
CreateMade(s, p, dp, ip, type) ==
  IF s.stop THEN s
  ELSE IF s.r < 0 THEN CreateFail(kfree(s), p, dp, ip)
  ELSE Ret(iunlockput(CreateUp(kfree(s), dp, type), p, dp), ip)

\* create after dp->op->link(de)
CreateLinked(s, p, dp, ip, type, major, minor) ==
  IF s.stop THEN s
  ELSE IF s.r < 0 THEN CreateFail(kfree(s), p, dp, ip)
  ELSE CreateMade(xv6fs_create(s, ip, major, minor), p, dp, ip, type)

\* create from the entry in dp on
CreateEntry(s, p, dp, ip, type, major, minor) ==
  CreateLinked(xv6fs_link(kalloc(s), p, dp, ip, s.name), p, dp, ip, type, major, minor)

\* create after the link of ".."
CreateDotDot(s, p, dp, ip, type, major, minor) ==
  IF s.stop THEN s
  ELSE IF s.r < 0 THEN CreateFail(kfree(s), p, dp, ip)
  ELSE CreateEntry(s, p, dp, ip, type, major, minor)

\* create after the link of "."
CreateDot(s, p, dp, ip, type, major, minor) ==
  IF s.stop THEN s
  ELSE IF s.r < 0 THEN CreateFail(kfree(s), p, dp, ip)
  ELSE CreateDotDot(xv6fs_link(kalloc(s), p, ip, dp, ".."), p, dp, ip, type, major, minor)

\* ip->nlink = 1; ip->type = type; write_inode(ip)
CreateInit(s, ip, type) ==
  IF s.stop THEN s
  ELSE xv6fs_iupdate([s EXCEPT !.itable[ip].nlink = 1, !.itable[ip].type = type], ip)

\* create after ilock of the inode alloc_inode returned
CreateNew(s, p, dp, ip, type, major, minor) ==
  IF s.stop THEN s
  ELSE IF type = T_DIR
       THEN CreateDot(xv6fs_link(kalloc(CreateInit(s, ip, type)), p, ip, ip, "."),
                      p, dp, ip, type, major, minor)
  ELSE CreateEntry(CreateInit(s, ip, type), p, dp, ip, type, major, minor)

\* create after alloc_inode
CreateAlloc(s, p, dp, type, major, minor) ==
  IF s.stop THEN s
  ELSE IF s.r = NULL THEN Ret(iunlockput(s, p, dp), NULL)
  ELSE CreateNew(ilock(s, p, s.r), p, dp, s.r, type, major, minor)

\* create with the entry found: after iunlockput(dp), ilock(ip)
CreateExists(s, p, ip, type) ==
  IF s.stop THEN s
  ELSE IF type = T_FILE /\ s.itable[ip].type \in {T_FILE, T_DEVICE} THEN [s EXCEPT !.r = ip]
  ELSE Ret(iunlockput(s, p, ip), NULL)

\* create after dirlookup
CreateLooked(s, p, dp, type, major, minor) ==
  IF s.stop THEN s
  ELSE IF s.r # NULL THEN CreateExists(ilock(iunlockput(s, p, dp), p, s.r), p, s.r, type)
  ELSE CreateAlloc(xv6fs_ialloc(s), p, dp, type, major, minor)

\* create after nameiparent(path, name)
CreateParent(s, p, type, major, minor) ==
  IF s.stop \/ s.r = NULL THEN s
  ELSE CreateLooked(xv6fs_dirlookup(ilock(s, p, s.r), s.r, s.name), p, s.r, type, major, minor)

\* create: r = the slot of the inode, locked, or NULL
create(s, p, path, type, major, minor) ==
  CreateParent(nameiparent(s, p, path), p, type, major, minor)

\* sys_open's assignments to f after fdalloc
OpenSet(s, ip, f, omode) ==
  [s EXCEPT !.ftable[f] =
     [@ EXCEPT !.off = IF s.itable[ip].type # T_DEVICE THEN 0 ELSE @,
               !.inode = ip, !.op = TRUE,
               !.readable = Readable(omode), !.writable = Writable(omode)]]

\* OpenTrunc without the truncation
OpenKept(s, ip, omode) == s

OpenTrunc(s, ip, omode) ==
  IF omode.trunc /\ s.itable[ip].type = T_FILE THEN xv6fs_itrunc(s, ip) ELSE s

\* sys_open after fdalloc(f)
OpenFd(s, p, ip, f, omode) ==
  IF s.stop THEN s
  ELSE IF s.r < 0 THEN Ret(iunlockput(fileclose(s, p, f), p, ip), -1)
  ELSE Ret(iunlock(OpenTrunc(OpenSet(s, ip, f, omode), ip, omode), p, ip), s.r)

\* sys_open after ip->op->open, ip locked
OpenInode(s, p, ip, omode) ==
  IF s.stop THEN s
  ELSE IF s.r = NULL THEN Ret(iunlockput(s, p, ip), -1)
  ELSE OpenFd(fdalloc(s, p, s.r), p, ip, s.r, omode)

\* sys_open after ilock(ip)
OpenLocked(s, p, ip, omode) ==
  IF s.stop THEN s
  ELSE IF s.itable[ip].type = T_DIR /\ omode # O_RDONLY THEN Ret(iunlockput(s, p, ip), -1)
  ELSE OpenInode(xv6fs_open(s, ip, omode), p, ip, omode)

\* sys_open after namei(path)
OpenNamed(s, p, omode) ==
  IF s.stop THEN s
  ELSE IF s.r = NULL THEN [s EXCEPT !.r = -1]
  ELSE OpenLocked(ilock(s, p, s.r), p, s.r, omode)

\* sys_open after create(path, T_FILE, 0, 0)
OpenCreated(s, p, omode) ==
  IF s.stop THEN s
  ELSE IF s.r = NULL THEN [s EXCEPT !.r = -1]
  ELSE OpenInode(xv6fs_open(s, s.r, omode), p, s.r, omode)

sys_open(s, p, path, omode) ==
  IF omode.create THEN OpenCreated(create(s, p, path, T_FILE, 0, 0), p, omode)
  ELSE OpenNamed(namei(s, p, path), p, omode)

\* sys_mkdir and sys_mknod after create
MadeNode(s, p) ==
  IF s.stop THEN s
  ELSE IF s.r = NULL THEN [s EXCEPT !.r = -1]
  ELSE Ret(iunlockput(s, p, s.r), 0)

sys_mkdir(s, p, path) == MadeNode(create(s, p, path, T_DIR, 0, 0), p)

sys_mknod(s, p, path, major, minor) == MadeNode(create(s, p, path, T_DEVICE, major, minor), p)

\* p->cwd = ip
ChdirSet(s, p, ip) == IF s.stop THEN s ELSE [s EXCEPT !.cwd[p] = ip, !.r = 0]

\* sys_chdir after ilock(ip)
ChdirLocked(s, p, ip) ==
  IF s.stop THEN s
  ELSE IF s.itable[ip].type # T_DIR THEN Ret(iunlockput(s, p, ip), -1)
  ELSE ChdirSet(iput(iunlock(s, p, ip), p, s.cwd[p]), p, ip)

\* sys_chdir after namei(path)
ChdirNamed(s, p) ==
  IF s.stop THEN s
  ELSE IF s.r = NULL THEN [s EXCEPT !.r = -1]
  ELSE ChdirLocked(ilock(s, p, s.r), p, s.r)

sys_chdir(s, p, path) == ChdirNamed(namei(s, p, path), p)


\* ----------------------------------------------------------------- pipes
\* a file slot as pipealloc sets it up: a pipe end has private set and no
\* inode, and is closed through f->op
PipeEnd(s, f, writable) ==
  [s EXCEPT !.ftable[f] = [@ EXCEPT !.inode = NULL, !.priv = TRUE, !.op = TRUE, !.off = 0,
                                    !.readable = ~writable, !.writable = writable]]

\* pipealloc after its second filealloc
PipeSecond(s, rf) ==
  IF s.stop THEN s
  ELSE IF s.r = NULL THEN [s EXCEPT !.ftable[rf].ref = 0, !.r = -1]
  ELSE [PipeEnd(PipeEnd(s, rf, FALSE), s.r, TRUE) EXCEPT !.out = <<rf, s.r>>, !.r = 0]

\* pipealloc after its first filealloc
PipeFirst(s) ==
  IF s.stop THEN s
  ELSE IF s.r = NULL THEN [s EXCEPT !.r = -1]
  ELSE PipeSecond(filealloc(s), s.r)

\* pipealloc(&rf, &wf): r = 0 and out = <<rf, wf>>, or r = -1
pipealloc(s) == PipeFirst(filealloc(s))

\* the failure path of sys_pipe: fileclose(rf); fileclose(wf); return -1
PipeBad(s, p, rf, wf) == Ret(fileclose(fileclose(s, p, rf), p, wf), -1)

\* sys_pipe after fdalloc(wf); the copyout of the descriptors gives out
PipeFd1(s, p, rf, wf, fd0) ==
  IF s.stop THEN s
  ELSE IF s.r < 0 THEN PipeBad([s EXCEPT !.ofile[p][fd0] = NULL], p, rf, wf)
  ELSE [s EXCEPT !.out = <<fd0, s.r>>, !.r = 0]

\* sys_pipe after fdalloc(rf)
PipeFd0(s, p, rf, wf) ==
  IF s.stop THEN s
  ELSE IF s.r < 0 THEN PipeBad(s, p, rf, wf)
  ELSE PipeFd1(fdalloc(s, p, wf), p, rf, wf, s.r)

\* sys_pipe after pipealloc
PipeMade(s, p) ==
  IF s.stop THEN s
  ELSE IF s.r < 0 THEN [s EXCEPT !.r = -1]
  ELSE PipeFd0(fdalloc(s, p, s.out[1]), p, s.out[1], s.out[2])

sys_pipe(s, p) == PipeMade(pipealloc(s), p)
\* ------------------------------------------------------------ the machine
Path(abs, elems) == [abs |-> abs, elems |-> elems]
PA == Path(TRUE, <<"a">>)
PB == Path(TRUE, <<"b">>)
PD == Path(TRUE, <<"d">>)
PDA == Path(TRUE, <<"d", "a">>)
PRelA == Path(FALSE, <<"a">>)
PEmpty == Path(FALSE, <<>>)
PRoot == Path(TRUE, <<>>)
Paths == {PA, PB, PD, PDA, PRelA, PEmpty}

O_CREATE_RDWR == [acc |-> 2, create |-> TRUE, trunc |-> FALSE]
O_TRUNC_WRONLY == [acc |-> 1, create |-> FALSE, trunc |-> TRUE]
Modes == {O_RDONLY, O_CREATE_RDWR, O_TRUNC_WRONLY}

\* len bytes 1 .. MaxByte in a pattern that shift moves
Pattern(len, shift) == [i \in 1 .. len |-> ((i + shift) % MaxByte) + 1]
\* lengths: inside a block, across a block boundary
Lens == {1, BSIZE + 1}
Srcs == {Pattern(len, 0) : len \in Lens} \cup {Pattern(1, 1)}
Counts == {1, BSIZE + 1}
Majors == {CONSOLE, NDEV}

FreeInode ==
  [dev |-> 0, inum |-> 0, ref |-> 0, lock |-> 0, type |-> 0, size |-> 0, nlink |-> 0,
   valid |-> FALSE, op |-> FALSE, ptype |-> 0, major |-> 0, minor |-> 0,
   addrs |-> ZeroAddrs]
FreeFile ==
  [ref |-> 0, off |-> 0, readable |-> FALSE, writable |-> FALSE, inode |-> NULL,
   priv |-> FALSE, op |-> FALSE]
FreeDinode ==
  [type |-> 0, major |-> 0, minor |-> 0, nlink |-> 0, size |-> 0, addrs |-> ZeroAddrs]

\* the disk mkfs leaves: the root directory with "." and ".."
RootDinode ==
  [type |-> T_DIR, major |-> 0, minor |-> 0, nlink |-> 1, size |-> 2 * DESZ,
   addrs |-> [i \in 0 .. NDIRECT |-> IF i = 0 THEN NMETA ELSE 0]]
RootBlock ==
  [i \in 1 .. BSIZE |-> IF i = 1 THEN DirentEnc(ROOTINO, ".")
                        ELSE IF i = 2 THEN DirentEnc(ROOTINO, "..") ELSE 0]

\* The kernel after fileinit, iinit, fsinit (xv6fs_mount takes the root inode
\* with xv6fs_geti and sets its op) and with every process's cwd a reference
\* to the root.
Boot ==
  [dinode |-> [i \in Inums |-> IF i = ROOTINO THEN RootDinode ELSE FreeDinode],
   bitmap |-> [b \in Blocks |-> b <= NMETA],
   data |-> [b \in Blocks |-> IF b = NMETA THEN RootBlock ELSE ZeroBlock],
   itable |-> [i \in ISlots |->
                 IF i = 0
                 THEN [FreeInode EXCEPT !.dev = ROOTDEV, !.inum = ROOTINO,
                         !.ref = 1 + Cardinality(Procs), !.valid = TRUE, !.op = TRUE,
                         !.type = T_DIR, !.ptype = T_DIR, !.nlink = 1,
                         !.size = RootDinode.size, !.addrs = RootDinode.addrs]
                 ELSE FreeInode],
   ftable |-> [f \in FSlots |-> FreeFile],
   ofile |-> [p \in Procs |-> [fd \in Fds |-> NULL]],
   cwd |-> [p \in Procs |-> 0],
   panicked |-> "",
   hung |-> {},
   opened |-> [f \in FSlots |-> 0],
   stop |-> FALSE, r |-> 0, name |-> "", out |-> <<>>, tx |-> 0, bare |-> FALSE,
   iputs |-> 0, devcall |-> <<>>, cross |-> FALSE, dentries |-> 0]

\* A system call: its name and its arguments.
Call(op, p) ==
  [op |-> op, p |-> p, path |-> PEmpty, new |-> PEmpty, fd |-> 0, omode |-> O_RDONLY,
   src |-> <<>>, n |-> 0]
COpen(p, path, omode) == [Call("open", p) EXCEPT !.path = path, !.omode = omode]
CClose(p, fd) == [Call("close", p) EXCEPT !.fd = fd]
CDup(p, fd) == [Call("dup", p) EXCEPT !.fd = fd]
CWrite(p, fd, src) == [Call("write", p) EXCEPT !.fd = fd, !.src = src]
CLink(p, old, new) == [Call("link", p) EXCEPT !.path = old, !.new = new]
CUnlink(p, path) == [Call("unlink", p) EXCEPT !.path = path]
CMkdir(p, path) == [Call("mkdir", p) EXCEPT !.path = path]
CChdir(p, path) == [Call("chdir", p) EXCEPT !.path = path]

\* syscall(): the kernel state a system call starts from
Fresh(s) ==
  [s EXCEPT !.stop = FALSE, !.r = 0, !.name = "", !.out = <<>>, !.tx = 0, !.bare = FALSE,
            !.iputs = 0, !.devcall = <<>>, !.cross = FALSE,
            !.dentries = 0]

\* the call c dispatched on the kernel state s
Sys(s, c) ==
  CASE c.op = "open" -> sys_open(Fresh(s), c.p, c.path, c.omode)
    [] c.op = "close" -> sys_close(Fresh(s), c.p, c.fd)
    [] c.op = "dup" -> sys_dup(Fresh(s), c.p, c.fd)
    [] c.op = "read" -> sys_read(Fresh(s), c.p, c.fd, c.n)
    [] c.op = "write" -> sys_write(Fresh(s), c.p, c.fd, c.src)
    [] c.op = "fstat" -> sys_fstat(Fresh(s), c.p, c.fd)
    [] c.op = "link" -> sys_link(Fresh(s), c.p, c.path, c.new)
    [] c.op = "unlink" -> sys_unlink(Fresh(s), c.p, c.path)
    [] c.op = "mkdir" -> sys_mkdir(Fresh(s), c.p, c.path)
    [] c.op = "mknod" -> sys_mknod(Fresh(s), c.p, c.path, c.n, 0)
    [] c.op = "chdir" -> sys_chdir(Fresh(s), c.p, c.path)

\* whether process p can make a call in s: the kernel has not panicked and
\* the process is not asleep for ever
Runs(s, p) == s.panicked = "" /\ p \notin s.hung

\* the state after the call c made in s
After(s, c) == IF ~Runs(s, c.p) THEN s ELSE Sys(s, c)

\* the state after the calls of script, made in this order from s
RECURSIVE Run(_, _)
Run(s, script) == IF script = <<>> THEN s ELSE Run(After(s, Head(script)), Tail(script))

\* ------------------------------------------------------ the first states
\* System-call sequences from boot. A behaviour starts in the state one of
\* them leaves, and goes on with MaxOps calls of any kind.
ScriptFile == <<COpen(1, PA, O_CREATE_RDWR), CWrite(1, 0, Pattern(NDIRECT * BSIZE + 1, 0))>>
ScriptClosed == ScriptFile \o <<CClose(1, 0)>>
ScriptLinked == ScriptClosed \o <<CLink(1, PA, PB)>>
ScriptDir == <<CMkdir(1, PD), COpen(1, PDA, O_CREATE_RDWR), CClose(1, 0)>>
ScriptDirFreed == ScriptDir \o <<CUnlink(1, PDA)>>
ScriptCwd == <<CMkdir(1, PD), CChdir(2, PD)>>
SpareScripts ==
  {<<>>, ScriptFile, ScriptClosed, ScriptLinked, ScriptDir, ScriptDirFreed, ScriptCwd}

\* System-call sequences that leave a process without a free descriptor, so
\* that its next sys_open fails at fdalloc.
\* process 1 holds all its descriptors, on one file slot
ScriptFdsFull == <<COpen(1, PA, O_CREATE_RDWR), CDup(1, 0)>>
\* process 1 holds all its descriptors and file slot 2 has been used before
ScriptFdsUsed ==
  <<COpen(1, PA, O_CREATE_RDWR), COpen(1, PA, O_RDONLY), COpen(2, PA, O_RDONLY),
    CClose(2, 0)>>
\* process 2 sits in /d; process 1, out of descriptors, fails to open /d and
\* then closes its files
ScriptFailedOpen ==
  <<CMkdir(1, PD), COpen(1, PA, O_CREATE_RDWR), COpen(1, PA, O_RDONLY), CChdir(2, PD),
    COpen(2, PD, O_RDONLY), CClose(2, 0), COpen(1, PD, O_RDONLY),
    CClose(1, 0), CClose(1, 1)>>
CrowdedScripts == {ScriptFdsFull, ScriptFdsUsed, ScriptFailedOpen}

Scenes == {Run(Boot, script) : script \in SpareScripts \cup CrowdedScripts}
SpareScenes == {Run(Boot, script) : script \in SpareScripts}

\* a task outside every function; back is where its call returns to
NoLocals ==
  [dev |-> 0, inum |-> 0, ip |-> NULL, empty |-> NULL, f |-> NULL, ret |-> NULL, n |-> 0,
   back |-> "held", call |-> Call("none", 0), dp |-> NULL, son |-> NULL, name |-> ""]

StartIn(s) ==
  /\ itable = s.itable
  /\ ftable = s.ftable
  /\ dinode = s.dinode
  /\ bitmap = s.bitmap
  /\ data = s.data
  /\ ofile = s.ofile
  /\ cwd = s.cwd
  /\ panicked = s.panicked
  /\ hung = s.hung
  /\ opened = s.opened
  /\ nops = 0
  /\ pc = [t \in Procs |-> "idle"]
  /\ loc = [t \in Procs |-> NoLocals]

\* the name buffer and the directory of SpecNames, at rest
NoNames == namebuf = [i \in 1 .. DIRSIZ |-> NUL] /\ dirents = <<>>

Init == NoNames /\ \E s \in Scenes : StartIn(s)
InitSpare == NoNames /\ \E s \in SpareScenes : StartIn(s)

\* the kernel state becomes s, one more system call made
Becomes(s) ==
  /\ itable' = s.itable
  /\ ftable' = s.ftable
  /\ dinode' = s.dinode
  /\ bitmap' = s.bitmap
  /\ data' = s.data
  /\ ofile' = s.ofile
  /\ cwd' = s.cwd
  /\ panicked' = s.panicked
  /\ hung' = s.hung
  /\ opened' = s.opened
  /\ nops' = nops + 1
  /\ UNCHANGED <<namebuf, dirents, pc, loc>>

\* process p may make one more system call
Enters(p) == Runs(K, p) /\ nops < MaxOps

Open(p, path, omode) ==
  Enters(p) /\ Becomes(sys_open(Fresh(K), p, path, omode))
Close(p, fd) == Enters(p) /\ Becomes(sys_close(Fresh(K), p, fd))
Dup(p, fd) == Enters(p) /\ Becomes(sys_dup(Fresh(K), p, fd))
Read(p, fd, n) == Enters(p) /\ Becomes(sys_read(Fresh(K), p, fd, n))
Write(p, fd, src) == Enters(p) /\ Becomes(sys_write(Fresh(K), p, fd, src))
Fstat(p, fd) == Enters(p) /\ Becomes(sys_fstat(Fresh(K), p, fd))
Link(p, old, new) == Enters(p) /\ Becomes(sys_link(Fresh(K), p, old, new))
Unlink(p, path) == Enters(p) /\ Becomes(sys_unlink(Fresh(K), p, path))
Mkdir(p, path) == Enters(p) /\ Becomes(sys_mkdir(Fresh(K), p, path))
Mknod(p, path, major) == Enters(p) /\ Becomes(sys_mknod(Fresh(K), p, path, major, 0))
Chdir(p, path) == Enters(p) /\ Becomes(sys_chdir(Fresh(K), p, path))

Next ==
  \E p \in Procs :
    \/ \E path \in Paths, omode \in Modes : Open(p, path, omode)
    \/ \E fd \in Fds : Close(p, fd)
    \/ \E fd \in Fds : Dup(p, fd)
    \/ \E fd \in Fds, n \in Counts : Read(p, fd, n)
    \/ \E fd \in Fds, src \in Srcs : Write(p, fd, src)
    \/ \E fd \in Fds : Fstat(p, fd)
    \/ \E old \in Paths, new \in Paths : Link(p, old, new)
    \/ \E path \in Paths : Unlink(p, path)
    \/ \E path \in Paths : Mkdir(p, path)
    \/ \E path \in Paths, major \in Majors : Mknod(p, path, major)
    \/ \E path \in Paths : Chdir(p, path)

Spec == Init /\ [][Next]_vars
\* the behaviours that start with descriptors to spare: in MaxOps calls no
\* sys_open of theirs gets past a failed fdalloc
SpecSpare == InitSpare /\ [][Next]_vars

\* --------------------------------------------------------- sparse files
\* xv6fs_mount takes whatever disk image it is given. These images hold a
\* regular file /a (inode 2) of a size, none of whose data blocks is mapped;
\* ind tells whether it has an indirect block (block NMETA + 1, no entry set).
SparseSizes == {1, BSIZE + 1, NDIRECT * BSIZE + 1, MAXFILE * BSIZE}
SparseDinode(size, ind) ==
  [type |-> T_FILE, major |-> 0, minor |-> 0, nlink |-> 1, size |-> size,
   addrs |-> [i \in 0 .. NDIRECT |-> IF i = NDIRECT /\ ind THEN NMETA + 1 ELSE 0]]
SparseBoot(size, ind) ==
  [Boot EXCEPT !.dinode[ROOTINO].size = 3 * DESZ,
               !.dinode[2] = SparseDinode(size, ind),
               !.data[NMETA][3] = DirentEnc(2, "a"),
               !.bitmap[NMETA + 1] = ind,
               !.itable[0].size = 3 * DESZ]

\* /a opened; /a opened on a disk that /b has filled but for one block or none
ScriptSparseOpen == <<COpen(1, PA, O_RDONLY)>>
ScriptSparseFull ==
  <<COpen(1, PB, O_CREATE_RDWR), CWrite(1, 0, Pattern(MAXFILE * BSIZE, 0)), CClose(1, 0),
    COpen(1, PA, O_RDONLY)>>
SparseScripts == {<<>>, ScriptSparseOpen, ScriptSparseFull}
SparseScenes ==
  {Run(SparseBoot(size, ind), script) :
     size \in SparseSizes, ind \in BOOLEAN, script \in SparseScripts}

InitSparse == NoNames /\ \E s \in SparseScenes : StartIn(s)
\* behaviours on a disk with a sparse file
SpecSparse == InitSparse /\ [][Next]_vars

\* ---------------------------------------------------- a disk nearly full
PDB == Path(TRUE, <<"d", "b">>)
\* /d holds a full block of entries, /a is open and has taken the last free
\* block
ScriptFullDisk ==
  <<CMkdir(1, PD), COpen(1, PDA, O_CREATE_RDWR), CClose(1, 0), COpen(1, PA, O_CREATE_RDWR),
    CWrite(1, 0, Pattern(MAXFILE * BSIZE, 0))>>
\* /a is open and empty, the free blocks are those of one chunk of filewrite
ScriptTight ==
  <<COpen(1, PB, O_CREATE_RDWR), CWrite(1, 0, Pattern(BSIZE, 0)), CClose(1, 0),
    CMkdir(1, PD), COpen(1, PA, O_CREATE_RDWR)>>
\* /a is open and empty, the free blocks are fewer than a chunk of filewrite needs
ScriptTighter ==
  <<COpen(1, PB, O_CREATE_RDWR), CWrite(1, 0, Pattern(NDIRECT * BSIZE + 1, 0)), CClose(1, 0),
    CMkdir(1, PD), COpen(1, PA, O_CREATE_RDWR), COpen(2, PA, O_RDONLY)>>
FullScripts == {ScriptFullDisk, ScriptTight, ScriptTighter}
FullScenes == {Run(Boot, script) : script \in FullScripts}
InitFull == NoNames /\ \E s \in FullScenes : StartIn(s)
\* behaviours on a disk with few free blocks or none
SpecFull == InitFull /\ [][Next]_vars

\* ------------------------------------------------- the bytes of the names
\* Path elements byte by byte: skipelem copies an element into the caller's
\* char name[DIRSIZ], sys_link and create copy it into a directory entry, and
\* xv6fs_dirlookup compares it with the names stored. A string is a sequence
\* of characters, its terminating NUL implied; a buffer is a function on
\* 1 .. DIRSIZ.
MaxEntries == 2      \* the entries of the directory
MaxTail == 1         \* the characters after the stem of an element
Chars == {"x", "y"}
Stem(n) == [i \in 1 .. n |-> "x"]
Tails == UNION {[1 .. n -> Chars] : n \in 0 .. MaxTail}
StemLens == {1, DIRSIZ - 1, DIRSIZ}
Elems == {Stem(n) \o t : n \in StemLens, t \in Tails}
CPath(e) == <<"/">> \o e
\* the inodes linked in
LinkInums == {ROOTINO + 1}
\* what the stack holds where name[] is placed
Garbage == {[i \in 1 .. DIRSIZ |-> c] : c \in {"y", NUL}}

\* src holds n bytes or more
memmove(dst, src, n) == [i \in DOMAIN dst |-> IF i <= n THEN src[i] ELSE dst[i]]

\* while(n-- > 0 && (*s++ = *t++) != 0) ; while(n-- > 0) *s++ = 0;
strncpy(dst, src, n) ==
  [i \in DOMAIN dst |->
     IF i > n THEN dst[i]
     ELSE IF \E j \in 1 .. i - 1 : src[j] = NUL THEN NUL ELSE src[i]]

\* while(n > 0 && *p && *p == *q) n--, p++, q++; 0 when they agree, and 1
\* for any other difference
strncmp(p, q, n) ==
  IF \E i \in 1 .. n : p[i] # q[i] /\ \A j \in 1 .. i - 1 : p[j] # NUL /\ p[j] = q[j]
  THEN 1
  ELSE 0

RECURSIVE SkipSlashes(_)
SkipSlashes(path) ==
  IF path # <<>> /\ Head(path) = "/" THEN SkipSlashes(Tail(path)) ELSE path

RECURSIVE ElemLen(_)
ElemLen(s) == IF s = <<>> \/ Head(s) = "/" THEN 0 ELSE 1 + ElemLen(Tail(s))

\* the copy of a long name ended with a NUL in its last byte
SkipCut(name, s, len) ==
  [memmove(name, s, MinOf(len, DIRSIZ - 1)) EXCEPT ![MinOf(len, DIRSIZ - 1) + 1] = NUL]

\* the copy of the element into name: un-terminated from DIRSIZ bytes on
SkipCopy(name, s, len) ==
  IF len >= DIRSIZ THEN memmove(name, s, DIRSIZ)
  ELSE [memmove(name, s, len) EXCEPT ![len + 1] = NUL]

\* s is the path after its leading slashes
SkipElem(s, name) ==
  IF s = <<>> THEN [path |-> NULL, name |-> name]
  ELSE [path |-> SkipSlashes(SubSeq(s, ElemLen(s) + 1, Len(s))),
        name |-> SkipCopy(name, s, ElemLen(s))]

\* the rest of the path (NULL: no element) and the name buffer
skipelem(path, name) == SkipElem(SkipSlashes(path), name)

\* xv6fs_dirlookup on the entries dir: the index of the first entry in use
\* whose name xv6fs_namecmp finds equal to name, 0 when there is none
LookupBytes(dir, name) ==
  IF \A i \in 1 .. Len(dir) : dir[i].inum = 0 \/ strncmp(name, dir[i].name, DIRSIZ) # 0
  THEN 0
  ELSE Min({i \in 1 .. Len(dir) : dir[i].inum # 0 /\ strncmp(name, dir[i].name, DIRSIZ) = 0})

\* the dentry sys_link and create fill (strncpy(de->name, name, DIRSIZ)), and
\* xv6fs_link on it: its own copy of the name, the lookup, the entry written
\* at the end of the directory
LinkBytes(dir, name, inum) ==
  IF LookupBytes(dir, strncpy(name, strncpy(name, name, DIRSIZ), DIRSIZ)) # 0 THEN dir
  ELSE Append(dir, [inum |-> inum,
                    name |-> strncpy(name, strncpy(name, strncpy(name, name, DIRSIZ), DIRSIZ),
                                     DIRSIZ)])

\* nameiparent(path, name) and the entry made for the new name
NameLink(path, inum) ==
  /\ Len(dirents) < MaxEntries
  /\ namebuf' = skipelem(path, namebuf).name
  /\ dirents' = LinkBytes(dirents, skipelem(path, namebuf).name, inum)
  /\ UNCHANGED <<itable, ftable, dinode, bitmap, data, ofile, cwd, panicked, hung, opened, nops,
                 pc, loc>>

\* namei(path): skipelem and the lookup of the element
NameLookup(path) ==
  /\ namebuf' = skipelem(path, namebuf).name
  /\ UNCHANGED <<itable, ftable, dinode, bitmap, data, ofile, cwd, panicked, hung, opened, nops,
                 dirents, pc, loc>>

InitNames == StartIn(Boot) /\ namebuf \in Garbage /\ dirents = <<>>
NextNames ==
  \/ \E e \in Elems, inum \in LinkInums : NameLink(CPath(e), inum)
  \/ \E e \in Elems : NameLookup(CPath(e))
\* behaviours of the name buffer and of one directory
SpecNames == InitNames /\ [][NextNames]_vars

\* ------------------------------------------------- tasks, by statements
\* Two tasks inside the kernel, each statement a step: another task may run
\* between any two statements of a function. The text of fs.c and file.c
\* takes no spin-lock.
Goes(t, where, l) == pc' = [pc EXCEPT ![t] = where] /\ loc' = [loc EXCEPT ![t] = l]

\* what the functions of the inode table leave alone
ItableFrame ==
  UNCHANGED <<ftable, dinode, bitmap, data, ofile, cwd, hung, opened, nops, namebuf, dirents>>

\* the inode numbers asked of iget: the root, a file, a number no slot holds
IgetInums == {ROOTINO, ROOTINO + 1, NINODES}

\* iget(dev, inum) entered: empty = 0, ip = &itable.inode[0]
IgetEnter(t, dev, inum) ==
  /\ panicked = ""
  /\ pc[t] = "idle"
  /\ Goes(t, "iget:for", [NoLocals EXCEPT !.dev = dev, !.inum = inum, !.ip = 0])
  /\ UNCHANGED <<itable, panicked>>
  /\ ItableFrame

\* for(...; ip < &itable.inode[NINODE]; ...) and, inside the loop,
\* if(ip->ref > 0 && ip->dev == dev && ip->inum == inum)
IgetScan(t) ==
  /\ panicked = ""
  /\ pc[t] = "iget:for"
  /\ Goes(t,
          IF loc[t].ip >= NINODE THEN "iget:end"
          ELSE IF itable[loc[t].ip].ref > 0 /\ itable[loc[t].ip].dev = loc[t].dev
                  /\ itable[loc[t].ip].inum = loc[t].inum
               THEN "iget:hit"
          ELSE "iget:note",
          loc[t])
  /\ UNCHANGED <<itable, panicked>>
  /\ ItableFrame

\* ip->ref++; return ip
IgetIncr(t) ==
  /\ panicked = ""
  /\ pc[t] = "iget:hit"
  /\ itable' = [itable EXCEPT ![loc[t].ip].ref = @ + 1]
  /\ Goes(t, loc[t].back, [loc[t] EXCEPT !.ret = loc[t].ip])
  /\ UNCHANGED panicked
  /\ ItableFrame

\* if(empty == 0 && ip->ref == 0) empty = ip; and the ip++ of the loop
IgetNote(t) ==
  /\ panicked = ""
  /\ pc[t] = "iget:note"
  /\ Goes(t, "iget:for",
          [loc[t] EXCEPT !.empty = IF @ = NULL /\ itable[loc[t].ip].ref = 0
                                   THEN loc[t].ip ELSE @,
                         !.ip = @ + 1])
  /\ UNCHANGED <<itable, panicked>>
  /\ ItableFrame

\* if(empty == 0) panic("iget: no inodes"); ip = empty
IgetRecycle(t) ==
  /\ panicked = ""
  /\ pc[t] = "iget:end"
  /\ panicked' = IF loc[t].empty = NULL THEN "iget: no inodes" ELSE panicked
  /\ Goes(t, IF loc[t].empty = NULL THEN "panic" ELSE "iget:dev",
          [loc[t] EXCEPT !.ip = loc[t].empty])
  /\ UNCHANGED itable
  /\ ItableFrame

\* ip->dev = dev; ip->inum = inum; ip->ref = 1; ip->private = 0; return ip:
\* one statement a step
IgetTake(t) ==
  /\ panicked = ""
  /\ pc[t] \in {"iget:dev", "iget:inum", "iget:ref", "iget:private"}
  /\ itable' =
       [itable EXCEPT ![loc[t].ip] =
          CASE pc[t] = "iget:dev" -> [@ EXCEPT !.dev = loc[t].dev]
            [] pc[t] = "iget:inum" -> [@ EXCEPT !.inum = loc[t].inum]
            [] pc[t] = "iget:ref" -> [@ EXCEPT !.ref = 1]
            [] pc[t] = "iget:private" ->
                 [@ EXCEPT !.valid = FALSE, !.ptype = 0, !.major = 0, !.minor = 0,
                           !.addrs = ZeroAddrs]]
  /\ Goes(t,
          CASE pc[t] = "iget:dev" -> "iget:inum"
            [] pc[t] = "iget:inum" -> "iget:ref"
            [] pc[t] = "iget:ref" -> "iget:private"
            [] pc[t] = "iget:private" -> loc[t].back,
          [loc[t] EXCEPT !.ret = IF pc[t] = "iget:private" THEN loc[t].ip ELSE @])
  /\ UNCHANGED panicked
  /\ ItableFrame

\* one statement of iget by task t
IgetStep(t) ==
  \/ IgetScan(t)
  \/ IgetIncr(t)
  \/ IgetNote(t)
  \/ IgetRecycle(t)
  \/ IgetTake(t)

\* the inode table with one slot free, and with none
ScriptTableThree == <<CMkdir(1, PD), CChdir(2, PD), COpen(1, PA, O_CREATE_RDWR)>>
ScriptTableFull == ScriptTableThree \o <<COpen(1, PB, O_CREATE_RDWR)>>
IgetScenes ==
  {Run(Boot, script) : script \in {<<>>, ScriptFile, ScriptTableThree, ScriptTableFull}}

InitIget == NoNames /\ \E s \in IgetScenes : StartIn(s)
NextIget ==
  \E t \in Procs :
    \/ \E inum \in IgetInums : IgetEnter(t, ROOTDEV, inum)
    \/ IgetStep(t)
\* two tasks, each making one call of iget
SpecIget == InitIget /\ [][NextIget]_vars

\* what the functions of the file table leave alone
FtableOnly ==
  UNCHANGED <<itable, dinode, bitmap, data, ofile, cwd, hung, opened, nops, namebuf, dirents>>

\* the references to one file a task takes
MaxHeld == 2

\* filealloc() entered: f = ftable.file
FallocEnter(t) ==
  /\ panicked = ""
  /\ pc[t] = "idle"
  /\ Goes(t, "falloc:for", [NoLocals EXCEPT !.f = 0])
  /\ UNCHANGED <<ftable, panicked>>
  /\ FtableOnly

\* for(...; f < ftable.file + NFILE; f++) with if(f->ref == 0) inside, and
\* the return 0 after the loop
FallocScan(t) ==
  /\ panicked = ""
  /\ pc[t] = "falloc:for"
  /\ Goes(t,
          IF loc[t].f >= NFILE THEN "none"
          ELSE IF ftable[loc[t].f].ref = 0 THEN "falloc:take"
          ELSE "falloc:for",
          [loc[t] EXCEPT !.f = IF @ < NFILE /\ ftable[@].ref # 0 THEN @ + 1 ELSE @])
  /\ UNCHANGED <<ftable, panicked>>
  /\ FtableOnly

\* f->ref = 1; return f. The task holds n = 1 reference to the file
FallocTake(t) ==
  /\ panicked = ""
  /\ pc[t] = "falloc:take"
  /\ ftable' = [ftable EXCEPT ![loc[t].f].ref = 1]
  /\ Goes(t, "held", [loc[t] EXCEPT !.ret = loc[t].f, !.n = 1])
  /\ UNCHANGED panicked
  /\ FtableOnly

\* filedup(f) on the file the task holds: if(f->ref < 1) panic("filedup");
\* then f->ref++; return f
FiledupStep(t) ==
  /\ panicked = ""
  /\ \/ /\ pc[t] = "held"
        /\ loc[t].n < MaxHeld
        /\ panicked' = IF ftable[loc[t].ret].ref < 1 THEN "filedup" ELSE panicked
        /\ Goes(t, IF ftable[loc[t].ret].ref < 1 THEN "panic" ELSE "fdup:incr", loc[t])
        /\ UNCHANGED ftable
     \/ /\ pc[t] = "fdup:incr"
        /\ ftable' = [ftable EXCEPT ![loc[t].ret].ref = @ + 1]
        /\ Goes(t, "held", [loc[t] EXCEPT !.n = @ + 1])
        /\ UNCHANGED panicked
  /\ FtableOnly

\* xv6fs_close(f) on the file the task holds, up to f->ref = 0:
\* if(f->ref < 1) panic("fileclose"); if(--f->ref > 0) return; f->ref = 0
FilecloseStep(t) ==
  /\ panicked = ""
  /\ \/ /\ pc[t] = "held"
        /\ panicked' = IF ftable[loc[t].ret].ref < 1 THEN "fileclose" ELSE panicked
        /\ Goes(t, IF ftable[loc[t].ret].ref < 1 THEN "panic" ELSE "fclose:dec", loc[t])
        /\ UNCHANGED ftable
     \/ /\ pc[t] = "fclose:dec"
        /\ ftable' = [ftable EXCEPT ![loc[t].ret].ref = @ - 1]
        /\ Goes(t, IF ftable[loc[t].ret].ref - 1 > 0 THEN "held" ELSE "fclose:zero",
                [loc[t] EXCEPT !.n = @ - 1])
        /\ UNCHANGED panicked
     \/ /\ pc[t] = "fclose:zero"
        /\ ftable' = [ftable EXCEPT ![loc[t].ret].ref = 0]
        /\ Goes(t, "closed", loc[t])
        /\ UNCHANGED panicked
  /\ FtableOnly

\* the file table with no file open, with one, with one slot left
FileScenes == {Run(Boot, script) : script \in {<<>>, ScriptFile, ScriptFdsUsed}}

InitFile == NoNames /\ \E s \in FileScenes : StartIn(s)
NextFile ==
  \E t \in Procs :
    \/ FallocEnter(t)
    \/ FallocScan(t)
    \/ FallocTake(t)
    \/ FiledupStep(t)
    \/ FilecloseStep(t)
\* two tasks, each allocating a file, duplicating and closing it
SpecFile == InitFile /\ [][NextFile]_vars

\* ------------------------------------------------ xv6fs_geti and iput
\* the kernel tables become those of s, the state a statement leaves
KernelIs(s) ==
  /\ itable' = s.itable
  /\ dinode' = s.dinode
  /\ bitmap' = s.bitmap
  /\ data' = s.data
  /\ panicked' = s.panicked
  /\ UNCHANGED <<ftable, ofile, cwd, hung, opened, namebuf, dirents>>

\* the calls a task makes in one behaviour
MaxCalls == 3
\* the disk inodes asked of xv6fs_geti
GetiInums == {ROOTINO, ROOTINO + 1}

\* the statements of iget and of xv6fs_geti
GetPcs ==
  {"iget:for", "iget:hit", "iget:note", "iget:end", "iget:dev", "iget:inum", "iget:ref",
   "iget:private", "geti:if", "geti:load"}

\* xv6fs_geti(dev, inum, 1) entered: its call of iget. xv6fs_dirlookup calls
\* it for an entry of a directory whose sleep-lock the caller holds, so one
\* task at a time is inside it
GetiEnter(t, dev, inum) ==
  /\ panicked = ""
  /\ pc[t] = "idle"
  /\ \A u \in Procs : pc[u] \notin GetPcs
  /\ nops < MaxCalls
  /\ nops' = nops + 1
  /\ Goes(t, "iget:for",
          [NoLocals EXCEPT !.dev = dev, !.inum = inum, !.ip = 0, !.back = "geti:if"])
  /\ KernelIs(K)

\* xv6fs_geti after iget: if(ino->private == 0) and the load of the disk
\* inode, which ends with ino->ref = 1
GetiStep(t) ==
  /\ panicked = ""
  /\ \/ /\ pc[t] = "geti:if"
        /\ Goes(t, IF itable[loc[t].ret].valid THEN "held" ELSE "geti:load", loc[t])
        /\ KernelIs(K)
     \/ /\ pc[t] = "geti:load"
        /\ Goes(t, "held", loc[t])
        /\ KernelIs(LoadInode(K, loc[t].ret))
  /\ UNCHANGED nops

\* iput(ip) entered with the reference the task holds
IputCall(t) ==
  /\ panicked = ""
  /\ pc[t] = "held"
  /\ Goes(t, "iput:private", [loc[t] EXCEPT !.ip = loc[t].ret])
  /\ KernelIs(K)
  /\ UNCHANGED nops

\* the conditions of iput: if(ip->private == 0) return;
\* if(ip->ref == 1 && ip->nlink == 0); if(ip->ref == 1 && ip->nlink > 0)
IputIf(t) ==
  /\ panicked = ""
  /\ \/ /\ pc[t] = "iput:private"
        /\ Goes(t, IF ~itable[loc[t].ip].valid THEN "idle" ELSE "iput:if0", loc[t])
     \/ /\ pc[t] = "iput:if0"
        /\ Goes(t, IF itable[loc[t].ip].ref = 1 /\ itable[loc[t].ip].nlink = 0
                   THEN "iput:acquire0" ELSE "iput:if1", loc[t])
     \/ /\ pc[t] = "iput:if1"
        /\ Goes(t, IF itable[loc[t].ip].ref = 1 /\ itable[loc[t].ip].nlink > 0
                   THEN "iput:acquire1" ELSE "iput:dec", loc[t])
  /\ KernelIs(K)
  /\ UNCHANGED nops

\* acquiresleep(&ip->lock) in either branch: the task goes on when the lock
\* is free
IputSleep(t) ==
  /\ panicked = ""
  /\ pc[t] \in {"iput:acquire0", "iput:acquire1"}
  /\ itable[loc[t].ip].lock = 0
  /\ Goes(t, IF pc[t] = "iput:acquire0" THEN "iput:type" ELSE "iput:write1", loc[t])
  /\ KernelIs(acquiresleep(K, t, loc[t].ip))
  /\ UNCHANGED nops

\* the state a statement of iput under the sleep-lock leaves
IputStmt(s, t, ip, at) ==
  CASE at = "iput:type" -> SetType(s, ip, 0)
    [] at = "iput:trunc" -> xv6fs_itrunc(s, ip)
    [] at = "iput:write0" -> xv6fs_iupdate(s, ip)
    [] at = "iput:free" -> xv6fs_free_inode(s, ip)
    [] at = "iput:release0" -> releasesleep(s, t, ip)
    [] at = "iput:write1" -> xv6fs_iupdate(s, ip)
    [] at = "iput:release_inode" -> xv6fs_release_inode(s, ip)
    [] at = "iput:release1" -> releasesleep(s, t, ip)

\* the statement after at
IputAfter(at) ==
  CASE at = "iput:type" -> "iput:trunc"
    [] at = "iput:trunc" -> "iput:write0"
    [] at = "iput:write0" -> "iput:free"
    [] at = "iput:free" -> "iput:release0"
    [] at = "iput:release0" -> "iput:if1"
    [] at = "iput:write1" -> "iput:release_inode"
    [] at = "iput:release_inode" -> "iput:release1"
    [] at = "iput:release1" -> "iput:dec"

\* one statement of iput under the sleep-lock
IputWork(t) ==
  /\ panicked = ""
  /\ pc[t] \in {"iput:type", "iput:trunc", "iput:write0", "iput:free", "iput:release0",
                "iput:write1", "iput:release_inode", "iput:release1"}
  /\ Goes(t, IF IputStmt(K, t, loc[t].ip, pc[t]).stop THEN "panic" ELSE IputAfter(pc[t]),
          loc[t])
  /\ KernelIs(IputStmt(K, t, loc[t].ip, pc[t]))
  /\ UNCHANGED nops

\* ip->ref--
IputDec(t) ==
  /\ panicked = ""
  /\ pc[t] = "iput:dec"
  /\ Goes(t, "idle", loc[t])
  /\ KernelIs(IputDrop(K, loc[t].ip))
  /\ UNCHANGED nops

\* inode 2 not in the table, a file with links and a free disk inode; in the
\* table, held by an open file
IputScenes == {Run(Boot, script) : script \in {<<>>, ScriptFile, ScriptClosed}}

InitIput == NoNames /\ \E s \in IputScenes : StartIn(s)
NextIput ==
  \E t \in Procs :
    \/ \E inum \in GetiInums : GetiEnter(t, ROOTDEV, inum)
    \/ IgetStep(t)
    \/ GetiStep(t)
    \/ IputCall(t)
    \/ IputIf(t)
    \/ IputSleep(t)
    \/ IputWork(t)
    \/ IputDec(t)
\* two tasks, each taking references with xv6fs_geti and dropping them with
\* iput
SpecIput == InitIput /\ [][NextIput]_vars

\* ------------------------------------- tasks that make directory entries
\* Two tasks each run one of sys_open with O_CREATE, sys_mkdir, sys_mknod
\* and sys_link. A step runs from one acquisition of an inode sleep-lock, or
\* one dirlookup or entry write of the directory, to the next; a step that
\* would sleep on a lock another running task holds waits for it.

\* the kernel state with the value and the name the last step left
KAt(v, name) == [K EXCEPT !.r = v, !.name = name]

\* the kernel state becomes s, task t goes to where with the locals l
Moves(s, t, where, l) ==
  /\ itable' = s.itable
  /\ ftable' = s.ftable
  /\ dinode' = s.dinode
  /\ bitmap' = s.bitmap
  /\ data' = s.data
  /\ ofile' = s.ofile
  /\ cwd' = s.cwd
  /\ panicked' = s.panicked
  /\ hung' = s.hung
  /\ opened' = s.opened
  /\ Goes(t, where, l)
  /\ UNCHANGED <<nops, namebuf, dirents>>

\* the step that leads to s sleeps in acquiresleep on a lock held by another
\* task inside its call: t waits in front of the step
Waits(s, t) ==
  /\ t \in s.hung
  /\ t \notin hung
  /\ \E u \in Procs \ {t} : pc[u] \notin {"idle", "done"} /\ \E i \in ISlots : itable[i].lock = u

\* task t may take a step of its call
Steps(t, at) == panicked = "" /\ t \notin hung /\ pc[t] = at

\* the type create is called with
CallType(c) == IF c.op = "mkdir" THEN T_DIR ELSE IF c.op = "mknod" THEN T_DEVICE ELSE T_FILE

\* the path whose last element names the entry
CallPath(c) == IF c.op = "link" THEN c.new ELSE c.path

\* what the system call does with the inode create returned
CallTail(s, t, c) == IF c.op = "open" THEN OpenCreated(s, t, c.omode) ELSE MadeNode(s, t)

\* sys_link from ilock(ip) to iunlock(ip): r = ip, or -1 returned
LinkCount(s, p, ip) ==
  IF s.stop THEN s
  ELSE IF s.itable[ip].type = T_DIR THEN Ret(iunlockput(s, p, ip), -1)
  ELSE Ret(iunlock(xv6fs_iupdate(AddNlink(s, ip, 1), ip), p, ip), ip)

\* sys_link after namei(old), up to iunlock(ip)
LinkCounted(s, p) ==
  IF s.stop THEN s
  ELSE IF s.r = NULL THEN [s EXCEPT !.r = -1]
  ELSE LinkCount(ilock(s, p, s.r), p, s.r)

\* create after the link of "..": r = ip, or NULL returned through fail
CreateDotted(s, p, dp, ip) ==
  IF s.stop THEN s
  ELSE IF s.r < 0 THEN CreateFail(s, p, dp, ip)
  ELSE [s EXCEPT !.r = ip]

\* create after the link of ".", up to the link of ".."
CreateDotOne(s, p, dp, ip) ==
  IF s.stop THEN s
  ELSE IF s.r < 0 THEN CreateFail(s, p, dp, ip)
  ELSE CreateDotted(xv6fs_link(s, p, ip, dp, ".."), p, dp, ip)

\* create from ilock(ip) of the new inode up to dp->op->link(de)
CreateReady(s, p, dp, ip, type) ==
  IF s.stop THEN s
  ELSE IF type = T_DIR
       THEN CreateDotOne(xv6fs_link(CreateInit(s, ip, type), p, ip, ip, "."), p, dp, ip)
  ELSE Ret(CreateInit(s, ip, type), ip)

\* create from alloc_inode up to dp->op->link(de)
CreateAllocated(s, p, dp, type) ==
  IF s.stop THEN s
  ELSE IF s.r = NULL THEN Ret(iunlockput(s, p, dp), NULL)
  ELSE CreateReady(ilock(s, p, s.r), p, dp, s.r, type)

\* the system call entered
DirEnter(t, c) ==
  /\ Steps(t, "idle")
  /\ nops < MaxCalls
  /\ nops' = nops + 1
  /\ Goes(t, IF c.op = "link" THEN "link:old" ELSE "dir:parent", [NoLocals EXCEPT !.call = c])
  /\ UNCHANGED <<itable, ftable, dinode, bitmap, data, ofile, cwd, panicked, hung, opened,
                 namebuf, dirents>>

\* sys_link: namei(old), ilock(ip), ip->nlink++, write_inode, iunlock(ip)
LinkOldStep(t, s) ==
  /\ Steps(t, "link:old")
  /\ ~Waits(s, t)
  /\ Moves(s, t, IF s.stop \/ s.r < 0 THEN "done" ELSE "dir:parent",
           [loc[t] EXCEPT !.son = s.r, !.ret = s.r])

\* nameiparent(path, name); sys_link goes to bad when it finds no parent
DirNoParent(s, t, c, son) == IF c.op = "link" THEN LinkBad(s, t, son) ELSE CallTail(s, t, c)

DirParentStep(t, s) ==
  /\ Steps(t, "dir:parent")
  /\ IF s.stop \/ s.r # NULL
     THEN /\ ~Waits(s, t)
          /\ Moves(s, t, IF s.stop THEN "done" ELSE "dir:lock",
                   [loc[t] EXCEPT !.dp = s.r, !.name = s.name])
     ELSE /\ ~Waits(DirNoParent(s, t, loc[t].call, loc[t].son), t)
          /\ Moves(DirNoParent(s, t, loc[t].call, loc[t].son), t, "done",
                   [loc[t] EXCEPT !.ret = -1])

\* ilock(dp)
DirLockStep(t, s) ==
  /\ Steps(t, "dir:lock")
  /\ ~Waits(s, t)
  /\ Moves(s, t, IF s.stop THEN "done"
                 ELSE IF loc[t].call.op = "link" THEN "link:look" ELSE "create:look",
           loc[t])

\* create: dp->op->dirlookup(dp, name)
CreateLookStep(t, s) ==
  /\ Steps(t, "create:look")
  /\ Moves(s, t, IF s.stop THEN "done"
                 ELSE IF s.r # NULL THEN "create:exists" ELSE "create:alloc",
           [loc[t] EXCEPT !.son = s.r])

\* create, the name found: iunlockput(dp)
CreateExistsStep(t, s) ==
  /\ Steps(t, "create:exists")
  /\ Moves(s, t, IF s.stop THEN "done" ELSE "create:found", loc[t])

\* create, the name found: ilock(ip) and the rest of the system call
CreateFoundStep(t, s) ==
  /\ Steps(t, "create:found")
  /\ ~Waits(s, t)
  /\ Moves(s, t, "done", [loc[t] EXCEPT !.ret = s.r])

\* create, no such name: alloc_inode, ilock(ip), the inode set up; when
\* create has returned null the system call ends
CreateAllocStep(t, s) ==
  /\ Steps(t, "create:alloc")
  /\ IF s.stop \/ s.r # NULL
     THEN Moves(s, t, IF s.stop THEN "done" ELSE "link:look", [loc[t] EXCEPT !.son = s.r])
     ELSE Moves(CallTail(s, t, loc[t].call), t, "done", [loc[t] EXCEPT !.ret = -1])

\* xv6fs_link: its xv6fs_dirlookup(dp, name)
LinkLookStep(t, s) ==
  /\ Steps(t, "link:look")
  /\ Moves(s, t, IF s.stop THEN "done" ELSE "link:write", [loc[t] EXCEPT !.ret = s.r])

\* xv6fs_link: the scan for a free entry and the write of the entry
LinkWriteStep(t, s) ==
  /\ Steps(t, "link:write")
  /\ Moves(s, t, IF s.stop THEN "done" ELSE "link:written", [loc[t] EXCEPT !.ret = s.r])

\* after dp->op->link(de): the rest of create or of sys_link, with
\* iunlockput(dp), and of the system call
DirRest(s, t, c, dp, son) ==
  IF c.op = "link" THEN LinkDone(s, t, dp, son)
  ELSE CallTail(CreateLinked(s, t, dp, son, CallType(c), c.n, 0), t, c)

DirEndStep(t, s) ==
  /\ Steps(t, "link:written")
  /\ ~Waits(s, t)
  /\ Moves(s, t, "done", [loc[t] EXCEPT !.ret = s.r])

\* the paths of the entries made, and the calls that make them
EntryPaths == {PA, PDA, PRelA}
DirCalls(t) ==
  {COpen(t, path, O_CREATE_RDWR) : path \in EntryPaths}
    \cup {CMkdir(t, path) : path \in EntryPaths}
    \cup {[Call("mknod", t) EXCEPT !.path = path, !.n = CONSOLE] : path \in EntryPaths}
    \cup {CLink(t, PB, path) : path \in EntryPaths}

\* a directory /d, the working directory of process 2, and a file /b
ScriptTree == <<CMkdir(1, PD), CChdir(2, PD), COpen(1, PB, O_CREATE_RDWR), CClose(1, 0)>>
DirScenes == {Run(Boot, script) : script \in SpareScripts \cup CrowdedScripts \cup {ScriptTree}}

InitDir == NoNames /\ \E s \in DirScenes : StartIn(s)
NextDir ==
  \E t \in Procs :
    \/ \E c \in DirCalls(t) : DirEnter(t, c)
    \/ LinkOldStep(t, LinkCounted(namei(K, t, loc[t].call.path), t))
    \/ DirParentStep(t, nameiparent(K, t, CallPath(loc[t].call)))
    \/ DirLockStep(t, ilock(K, t, loc[t].dp))
    \/ CreateLookStep(t, xv6fs_dirlookup(K, loc[t].dp, loc[t].name))
    \/ CreateExistsStep(t, iunlockput(K, t, loc[t].dp))
    \/ CreateFoundStep(t, CallTail(CreateExists(ilock(K, t, loc[t].son), t, loc[t].son,
                                                CallType(loc[t].call)), t, loc[t].call))
    \/ CreateAllocStep(t, CreateAllocated(xv6fs_ialloc(K), t, loc[t].dp, CallType(loc[t].call)))
    \/ LinkLookStep(t, xv6fs_dirlookup(K, loc[t].dp, loc[t].name))
    \/ LinkWriteStep(t, LinkLooked(KAt(loc[t].ret, loc[t].name), t, loc[t].dp, loc[t].son,
                                   loc[t].name))
    \/ DirEndStep(t, DirRest(KAt(loc[t].ret, loc[t].name), t, loc[t].call, loc[t].dp,
                             loc[t].son))
\* two tasks, each making a directory entry
SpecDir == InitDir /\ [][NextDir]_vars

\* ------------------------------------------------- tasks in xv6fs_ialloc
\* xv6fs_ialloc entered: the scan of the disk inodes. The test of dip->type
\* and the mark are made on the buffer bread returned locked, so the first
\* free disk inode is found and marked in one step; then xv6fs_geti is
\* called, statement by statement. With no free inode it returns null.
IallocEnter(t) ==
  /\ panicked = ""
  /\ pc[t] = "idle"
  /\ nops < MaxCalls
  /\ nops' = nops + 1
  /\ IF FreeInums(K) = {}
     THEN Goes(t, "ialloc:ret", NoLocals) /\ KernelIs(K)
     ELSE /\ Goes(t, "iget:for",
                  [NoLocals EXCEPT !.dev = ROOTDEV, !.inum = Min(FreeInums(K)), !.ip = 0,
                                   !.back = "geti:if"])
          /\ KernelIs([K EXCEPT !.dinode[Min(FreeInums(K))] =
                         [type |-> 3, major |-> 0, minor |-> 0, nlink |-> 0, size |-> 0,
                          addrs |-> ZeroAddrs]])

\* xv6fs_ialloc after xv6fs_geti: ip->op, ip->sb, the private payload if
\* there is none, return ip
IallocRet(t) ==
  /\ panicked = ""
  /\ pc[t] = "held"
  /\ Goes(t, "ialloc:ret", loc[t])
  /\ KernelIs(IallocGot(KAt(loc[t].ret, "")))
  /\ UNCHANGED nops

IallocScenes == IgetScenes \cup IputScenes
InitIalloc == NoNames /\ \E s \in IallocScenes : StartIn(s)
NextIalloc ==
  \E t \in Procs :
    \/ IallocEnter(t)
    \/ IgetScan(t)
    \/ IgetNote(t)
    \/ IgetRecycle(t)
    \/ IgetTake(t)
    \/ GetiStep(t)
    \/ IallocRet(t)
\* two tasks, each allocating an inode; the inode marked was free, so no slot
\* of the table holds it and the scan of iget never ends in ip->ref++
SpecIalloc == InitIalloc /\ [][NextIalloc]_vars

\* ------------------------------------------------------------- the claims
\* C1: in every reachable state no two inode-table slots with ref > 0 hold
\* the same (dev, inum) pair.
C1Unique ==
  \A i \in ISlots, j \in ISlots :
    (i # j /\ itable[i].ref > 0 /\ itable[j].ref > 0)
      => <<itable[i].dev, itable[i].inum>> # <<itable[j].dev, itable[j].inum>>

\* C2: in every reachable state each file-table slot with ref > 0 and a
\* non-null inode points at an inode-table slot whose ref is at least 1 and
\* whose (dev, inum) is the one it had when the file was opened.
C2Attached ==
  \A f \in FSlots :
    (ftable[f].ref > 0 /\ ftable[f].inode # NULL)
      => /\ itable[ftable[f].inode].ref >= 1
         /\ itable[ftable[f].inode].dev = ROOTDEV
         /\ itable[ftable[f].inode].inum = opened[f]

\* ------------------------------------------------------ reading the disk
\* size and content of the disk inode inum
Content(s, inum) ==
  [i \in 1 .. s.dinode[inum].size |-> CellOf(s, s.dinode[inum].addrs, i - 1)]

\* the blocks the disk inode inum refers to: data blocks and indirect block
BlocksOf(s, inum) ==
  ({s.dinode[inum].addrs[i] : i \in 0 .. NDIRECT}
     \cup (IF s.dinode[inum].addrs[NDIRECT] = 0 THEN {}
           ELSE {s.data[s.dinode[inum].addrs[NDIRECT]][j] : j \in 1 .. NINDIRECT}))
  \ {0}

SetBits(s) == {b \in Blocks : s.bitmap[b]}
UsedInodes(s) == {i \in Inums : s.dinode[i].type # 0}

\* a call that returned an inode
Named(s) == ~s.stop /\ s.r # NULL
\* the identity of the inode a call returned
IdOf(s) == <<s.itable[s.r].dev, s.itable[s.r].inum>>

\* the names a file is opened by
FilePaths == {PA, PB, PDA, PRelA}

\* ---------------------------------------------------------------- C3
C3Lens == {1, BSIZE + 1, NDIRECT * BSIZE + 1}
C3Srcs == {Pattern(len, 1) : len \in C3Lens}

\* the read of the range delivers src
C3Same(rd, src) == ~rd.stop /\ rd.r = Len(src) /\ rd.out = src

\* w is the state xv6fs_writei of src at off left, the inode still locked
C3Back(w, ip, off, src) ==
  (~w.stop /\ w.r = Len(src)) => C3Same(xv6fs_readi(w, ip, off, Len(src)), src)

C3Inode(s, p, ip) ==
  (Runs(s, p) /\ s.itable[ip].ref > 0 /\ s.itable[ip].valid /\ s.itable[ip].type = T_FILE)
    => \A off \in 0 .. s.itable[ip].size, src \in C3Srcs :
         C3Back(xv6fs_writei(ilock(Fresh(s), p, ip), ip, off, src), ip, off, src)

\* the descriptor fd of p is open for reading and writing on a regular file
\* that path names
C3Open(s, p, fd, n) ==
  /\ Runs(s, p)
  /\ argfd(s, p, fd) # NULL
  /\ s.ftable[argfd(s, p, fd)].readable
  /\ s.ftable[argfd(s, p, fd)].writable
  /\ s.ftable[argfd(s, p, fd)].inode # NULL
  /\ s.itable[s.ftable[argfd(s, p, fd)].inode].type = T_FILE
  /\ Named(n)
  /\ IdOf(n) = <<s.itable[s.ftable[argfd(s, p, fd)].inode].dev,
                 s.itable[s.ftable[argfd(s, p, fd)].inode].inum>>

\* rd is the state after the read of Len(src) bytes at the offset
C3Skipped(sk, p, fd, off, src) ==
  (~sk.stop /\ sk.r = off) => C3Same(sys_read(Fresh(sk), p, fd, Len(src)), src)

\* o is the state after the file was opened again: the bytes before the
\* offset of the write are read first
C3Opened(o, p, off, src) ==
  (~o.stop /\ o.r >= 0)
    => IF off = 0 THEN C3Same(sys_read(Fresh(o), p, o.r, Len(src)), src)
       ELSE C3Skipped(sys_read(Fresh(o), p, o.r, off), p, o.r, off, src)

\* c is the state after the close
C3Closed(c, p, path, off, src) ==
  (~c.stop /\ c.r = 0) => C3Opened(sys_open(Fresh(c), p, path, O_RDONLY), p, off, src)

\* w is the state after the write
C3Written(w, p, fd, path, off, src) ==
  (~w.stop /\ w.r = Len(src))
    => C3Closed(sys_close(Fresh(w), p, fd), p, path, off, src)

C3File(s, p, fd, path) ==
  C3Open(s, p, fd, namei(Fresh(s), p, path))
    => \A src \in C3Srcs :
         C3Written(sys_write(Fresh(s), p, fd, src), p, fd, path,
                   s.ftable[argfd(s, p, fd)].off, src)

NoOpenFile(s, id) ==
  \A f \in FSlots :
    (s.ftable[f].ref > 0 /\ s.ftable[f].inode # NULL)
      => <<s.itable[s.ftable[f].inode].dev, s.itable[s.ftable[f].inode].inum>> # id

\* n is the state after namei(path): a regular file with one link
C4File(s, n) ==
  /\ Named(n)
  /\ n.itable[n.r].type = T_FILE
  /\ n.itable[n.r].nlink = 1
  /\ NoOpenFile(s, IdOf(n))

\* u is the state after the unlink of the inode inum of s
C4Gone(s, u, inum) ==
  /\ u.dinode[inum].type = 0
  /\ \A b \in BlocksOf(s, inum) : ~u.bitmap[b]
  /\ \A i \in ISlots :
       (u.itable[i].dev = ROOTDEV /\ u.itable[i].inum = inum) => u.itable[i].ref = 0

C4Case(s, n, u) ==
  (C4File(s, n) /\ ~u.stop /\ u.r = 0) => C4Gone(s, u, n.itable[n.r].inum)

\* C4: after sys_unlink returns 0 on a regular file with nlink 1 that no open
\* file references, its disk inode has type 0, its data blocks and indirect
\* block are clear in the bitmap, and its inode-table slot has ref 0.
C4Freed ==
  \A p \in Procs, path \in Paths :
    Runs(K, p) => C4Case(K, namei(Fresh(K), p, path), sys_unlink(Fresh(K), p, path))

\* ---------------------------------------------------------------- C7
C7Same(n1, n2) ==
  /\ ~n2.stop
  /\ (n1.r = NULL) = (n2.r = NULL)
  /\ n1.r # NULL => IdOf(n1) = IdOf(n2)
  /\ n2.dinode = n1.dinode
  /\ n2.data = n1.data
  /\ n2.bitmap = n1.bitmap

C7Case(n1, p, path) == ~n1.stop => C7Same(n1, namei(Fresh(n1), p, path))

Entries(s, ip) ==
  {off \in 0 .. s.itable[ip].size - 1 : DeInum(CellOf(s, s.itable[ip].addrs, off)) # 0}

\* the directory has no entry in use besides "." and ".."
OnlyDots(s, ip) ==
  \A off \in Entries(s, ip) :
    DeNameIdx(CellOf(s, s.itable[ip].addrs, off)) \in {NameIdx("."), NameIdx("..")}

\* "." and ".." are the first two entries
DotsFirst(s, ip) ==
  /\ s.itable[ip].size >= 2 * DESZ
  /\ CellOf(s, s.itable[ip].addrs, 0) = DirentEnc(s.itable[ip].inum, ".")
  /\ DeNameIdx(CellOf(s, s.itable[ip].addrs, DESZ)) = NameIdx("..")
  /\ DeInum(CellOf(s, s.itable[ip].addrs, DESZ)) # 0

\* l is the state after ilock of the inode namei returned
C9Locked(l, ip) ==
  (~l.stop /\ l.itable[ip].type = T_DIR)
    => /\ (xv6fs_isdirempty(l, ip).r = 1) = OnlyDots(l, ip)
       /\ ~xv6fs_isdirempty(l, ip).stop
       /\ DotsFirst(l, ip)

C9Named(n, p) == Named(n) => C9Locked(ilock(n, p, n.r), n.r)

\* C9: for every directory a path names, isdirempty returns true exactly
\* when the directory has no entry with inum # 0 besides "." and "..", which
\* are its first two entries.
C9Empty ==
  \A p \in Procs, path \in Paths \cup {PRoot} :
    Runs(K, p) => C9Named(namei(Fresh(K), p, path), p)

\* --------------------------------------------------------------- C10
\* the directory in slot ip has an entry in use besides "." and ".."
C10Full(l, ip) == ~l.stop /\ l.itable[ip].type = T_DIR /\ ~OnlyDots(l, ip)

\* u is the state after sys_unlink of the directory, made in s
C10Refused(s, u) ==
  /\ ~u.stop
  /\ u.r = -1
  /\ u.dinode = s.dinode
  /\ u.data = s.data
  /\ u.bitmap = s.bitmap
  /\ \A i \in ISlots : u.itable[i].ref = s.itable[i].ref
  /\ \A i \in ISlots : u.itable[i].ref > 0 => u.itable[i].nlink = s.itable[i].nlink

\* n is the state after namei(path), made in s
C10Named(s, n, p, path) ==
  (Named(n) /\ C10Full(ilock(n, p, n.r), n.r))
    => C10Refused(s, sys_unlink(Fresh(s), p, path))

\* the names an entry may have
EntryNames == <<"a", "b", "d">>
Sub(path, name) == Path(path.abs, path.elems \o <<name>>)

\* the state after the unlink of every entry of names that the directory
\* path has; stop is set if one of them is refused
RECURSIVE C10Clear(_, _, _, _)
C10Drop(s, u, p, path, names) ==
  IF u.stop THEN u
  ELSE IF u.r = 0 THEN C10Clear(u, p, path, Tail(names))
  ELSE IF Named(namei(Fresh(s), p, Sub(path, Head(names)))) THEN [u EXCEPT !.stop = TRUE]
  ELSE C10Clear(s, p, path, Tail(names))

C10Clear(s, p, path, names) ==
  IF names = <<>> THEN s
  ELSE C10Drop(s, sys_unlink(Fresh(s), p, Sub(path, Head(names))), p, path, names)

\* c is the state after the entries were unlinked
C10Cleared(c, p, path) ==
  ~c.stop => (~sys_unlink(Fresh(c), p, path).stop /\ sys_unlink(Fresh(c), p, path).r = 0)

C10Emptied(s, n, p, path) ==
  (Named(n) /\ n.itable[n.r].type = T_DIR /\ n.itable[n.r].inum # ROOTINO)
    => C10Cleared(C10Clear(s, p, path, EntryNames), p, path)

\* the names of directories
DirPaths == {PD, Path(TRUE, <<"d", "d">>), Path(FALSE, <<"d">>)}

\* C10: sys_unlink of a directory with an entry besides "." and ".." returns
\* -1 and changes neither the disk (entries, nlink, bitmap) nor the inode
\* refs; once the entries are unlinked, sys_unlink of the directory returns 0.
C10NonEmpty ==
  \A p \in Procs, path \in DirPaths :
    Runs(K, p)
      => /\ C10Named(K, namei(Fresh(K), p, path), p, path)
         /\ C10Emptied(K, namei(Fresh(K), p, path), p, path)

\* ---------------------------------------------------------------- C5
\* the inode named by the state n of a namei is the inode id
Names2(n, id) == Named(n) /\ IdOf(n) = id

\* u is the state after unlink(old), s the state before the link
C5Kept(s, u, p, old, new, id) ==
  (~u.stop /\ u.r = 0)
    => /\ ~namei(Fresh(u), p, old).stop
       /\ namei(Fresh(u), p, old).r = NULL
       /\ Names2(namei(Fresh(u), p, new), id)
       /\ Content(u, id[2]) = Content(s, id[2])

\* l is the state after link(old, new), s the state before it
C5Both(s, l, p, old, new, id) ==
  (~l.stop /\ l.r = 0)
    => /\ Names2(namei(Fresh(l), p, old), id)
       /\ Names2(namei(Fresh(l), p, new), id)
       /\ l.dinode[id[2]].nlink = s.dinode[id[2]].nlink + 1
       /\ C5Kept(s, sys_unlink(Fresh(l), p, old), p, old, new, id)

\* o is the state after namei(old)
C5Pair(s, o, p, old, new) ==
  Named(o) => C5Both(s, sys_link(Fresh(s), p, old, new), p, old, new, IdOf(o))

\* the blocks of the directory that would hold the last element of path
ParentBlocks(s, n) == IF Named(n) THEN BlocksOf(s, n.itable[n.r].inum) ELSE {}

\* v is the state after the last unlink, s the state before the file was
\* created: the counts are those of s
C5Restored(s, v) ==
  /\ Cardinality(UsedInodes(v)) = Cardinality(UsedInodes(s))
  /\ Cardinality(SetBits(v)) = Cardinality(SetBits(s))

\* the inodes in use are those of s, the bits set are those of s and the
\* blocks of the directories of old and new
C5Grown(s, v, p, old, new) ==
  /\ UsedInodes(v) = UsedInodes(s)
  /\ SetBits(v) = SetBits(s) \cup ParentBlocks(v, nameiparent(Fresh(v), p, old))
                             \cup ParentBlocks(v, nameiparent(Fresh(v), p, new))

C5Src == Pattern(NDIRECT * BSIZE + 1, 0)

\* the states of the chain create, write, close, link, unlink, unlink; exact
\* tells which statement about the last state is made
C5Last(s, v, p, old, new, exact) ==
  (~v.stop /\ v.r = 0)
    => IF exact THEN C5Restored(s, v) ELSE C5Grown(s, v, p, old, new)

C5Unlinked(s, u, p, old, new, exact) ==
  (~u.stop /\ u.r = 0) => C5Last(s, sys_unlink(Fresh(u), p, new), p, old, new, exact)

C5Linked(s, l, p, old, new, exact) ==
  (~l.stop /\ l.r = 0) => C5Unlinked(s, sys_unlink(Fresh(l), p, old), p, old, new, exact)

C5Shut(s, c, p, old, new, exact) ==
  (~c.stop /\ c.r = 0) => C5Linked(s, sys_link(Fresh(c), p, old, new), p, old, new, exact)

C5Wrote(s, w, p, fd, old, new, exact) ==
  (~w.stop /\ w.r = Len(C5Src))
    => C5Shut(s, sys_close(Fresh(w), p, fd), p, old, new, exact)

C5Made(s, c, p, old, new, exact) ==
  (~c.stop /\ c.r >= 0)
    => C5Wrote(s, sys_write(Fresh(c), p, c.r, C5Src), p, c.r, old, new, exact)

\* o is the state after namei(old): old names nothing yet
C5Chain(s, o, p, old, new, exact) ==
  (~o.stop /\ o.r = NULL)
    => C5Made(s, sys_open(Fresh(s), p, old, O_CREATE_RDWR), p, old, new, exact)

C5Links(exact) ==
  \A p \in Procs, old \in FilePaths, new \in FilePaths :
    Runs(K, p)
      => /\ C5Pair(K, namei(Fresh(K), p, old), p, old, new)
         /\ C5Chain(K, namei(Fresh(K), p, old), p, old, new, exact)

C6Lens == {BSIZE + 1, NDIRECT * BSIZE + 1, WriteChunk + 1}

\* the descriptor fd of p is open for writing on a regular file without
\* content, at offset 0
C6New(s, p, fd) ==
  /\ Runs(s, p)
  /\ argfd(s, p, fd) # NULL
  /\ s.ftable[argfd(s, p, fd)].writable
  /\ s.ftable[argfd(s, p, fd)].off = 0
  /\ s.ftable[argfd(s, p, fd)].inode # NULL
  /\ s.itable[s.ftable[argfd(s, p, fd)].inode].ref > 0
  /\ s.itable[s.ftable[argfd(s, p, fd)].inode].valid
  /\ s.itable[s.ftable[argfd(s, p, fd)].inode].type = T_FILE
  /\ s.itable[s.ftable[argfd(s, p, fd)].inode].size = 0

\* the state after the pieces src[1..a], src[a+1..b], src[b+1..] are written
\* one after the other with sys_write
C6Pieces(s, p, fd, src, a, b) ==
  sys_write(Fresh(sys_write(Fresh(sys_write(Fresh(s), p, fd, SubSeq(src, 1, a))),
                            p, fd, SubSeq(src, a + 1, b))),
            p, fd, SubSeq(src, b + 1, Len(src)))

\* one is the state after the single xv6fs_writei, t the state after the
\* pieces
C6Equal(one, t, f, inum) ==
  /\ ~one.stop
  /\ ~t.stop
  /\ one.r = t.ftable[f].off
  /\ Content(one, inum) = Content(t, inum)

C6Case(s, p, fd, ip, src) ==
  \A a \in 0 .. Len(src), b \in 0 .. Len(src) :
    a <= b
      => C6Equal(xv6fs_writei(ilock(Fresh(s), p, ip), ip, 0, src),
                 C6Pieces(s, p, fd, src, a, b), argfd(s, p, fd), s.itable[ip].inum)

\* C6: S bytes written to a new file by successive sys_write calls, split in
\* any way, and in the chunks filewrite makes, leave the size, the content
\* and the final offset that a single xv6fs_writei of the S bytes leaves.
C6Split ==
  \A p \in Procs, fd \in Fds :
    C6New(K, p, fd)
      => \A len \in C6Lens :
           C6Case(K, p, fd, K.ftable[argfd(K, p, fd)].inode, Pattern(len, 0))

\* ---------------------------------------------------------------- C8
\* no logical block of the range [off, off+n) of the inode in slot ip is
\* mapped to a disk block
Unmapped(s, ip, off, n) ==
  \A bn \in (off \div BSIZE) .. ((off + n - 1) \div BSIZE) :
    BlockOf(s, s.itable[ip].addrs, bn) = 0

Zeros(n) == [i \in 1 .. n |-> 0]

\* the blocks the in-memory inode in slot ip refers to
SlotBlocks(s, ip) ==
  ({s.itable[ip].addrs[i] : i \in 0 .. NDIRECT}
     \cup (IF s.itable[ip].addrs[NDIRECT] = 0 THEN {}
           ELSE {s.data[s.itable[ip].addrs[NDIRECT]][j] : j \in 1 .. NINDIRECT}))
  \ {0}

\* the indirect table of the inode in slot ip
IndirectOf(s, ip) ==
  IF s.itable[ip].addrs[NDIRECT] = 0 THEN ZeroBlock
  ELSE s.data[s.itable[ip].addrs[NDIRECT]]

\* rd is the state after the read of n cells, l the state before it: zeros
\* are delivered, nothing is allocated
C8Untouched(l, rd, ip, n) ==
  /\ ~rd.stop
  /\ rd.r = n
  /\ rd.out = Zeros(n)
  /\ rd.bitmap = l.bitmap
  /\ rd.itable[ip].addrs = l.itable[ip].addrs
  /\ IndirectOf(rd, ip) = IndirectOf(l, ip)

\* zeros are delivered; each block of the part delivered is mapped to a block
\* that was free; the bits set are those set before and those of the blocks
\* of the inode; the read is short only when no block is free any more
C8Mapped(l, rd, ip, off, n) ==
  /\ ~rd.stop
  /\ rd.r <= n
  /\ rd.out = Zeros(rd.r)
  /\ \A o \in off .. off + rd.r - 1 :
       /\ BlockOf(rd, rd.itable[ip].addrs, o \div BSIZE) # 0
       /\ ~l.bitmap[BlockOf(rd, rd.itable[ip].addrs, o \div BSIZE)]
  /\ SetBits(rd) = SetBits(l) \cup SlotBlocks(rd, ip)
  /\ rd.r < n => FreeBlocks(rd) = {}

\* l is the state after ilock of the inode in slot ip
C8Ranges(l, ip) ==
  {r \in (0 .. l.itable[ip].size - 1) \X (1 .. l.itable[ip].size) :
     r[1] + r[2] <= l.itable[ip].size /\ Unmapped(l, ip, r[1], r[2])}

C8File(s, ip) == s.itable[ip].ref > 0 /\ s.itable[ip].valid /\ s.itable[ip].type = T_FILE

C8Locked(l, ip, exact) ==
  ~l.stop
    => \A r \in C8Ranges(l, ip) :
         IF exact THEN C8Untouched(l, xv6fs_readi(l, ip, r[1], r[2]), ip, r[2])
         ELSE C8Mapped(l, xv6fs_readi(l, ip, r[1], r[2]), ip, r[1], r[2])

C8Reads(exact) ==
  \A p \in Procs, ip \in ISlots :
    (Runs(K, p) /\ C8File(K, ip)) => C8Locked(ilock(Fresh(K), p, ip), ip, exact)

C3ReadBack(o, p, off, src) == ~o.stop /\ o.r >= 0 /\ C3Opened(o, p, off, src)
C3Reopened(c, p, path, off, src) ==
  ~c.stop /\ c.r = 0 /\ C3ReadBack(sys_open(Fresh(c), p, path, O_RDONLY), p, off, src)
C3Stored(w, p, fd, path, off, src) ==
  ~w.stop /\ w.r = Len(src) /\ C3Reopened(sys_close(Fresh(w), p, fd), p, path, off, src)
C4Unlinked(s, n, u) ==
  /\ C4File(s, n)
  /\ s.dinode[n.itable[n.r].inum].addrs[NDIRECT] # 0
  /\ ~u.stop
  /\ u.r = 0
  /\ C4Gone(s, u, n.itable[n.r].inum)
C4Seen ==
  \E p \in Procs, path \in Paths :
    Runs(K, p) /\ C4Unlinked(K, namei(Fresh(K), p, path), sys_unlink(Fresh(K), p, path))

\* C5: a file was created, written, closed, linked and unlinked by both
\* names, and a directory kept a block it had to take for the new entry
C5Ended(s, v, p, old, new) ==
  ~v.stop /\ v.r = 0 /\ C5Grown(s, v, p, old, new) /\ ~C5Restored(s, v)
C5Halfway(s, u, p, old, new) ==
  ~u.stop /\ u.r = 0 /\ C5Ended(s, sys_unlink(Fresh(u), p, new), p, old, new)
C5Twice(s, l, p, old, new) ==
  ~l.stop /\ l.r = 0 /\ C5Halfway(s, sys_unlink(Fresh(l), p, old), p, old, new)
C5Saved(s, c, p, old, new) ==
  ~c.stop /\ c.r = 0 /\ C5Twice(s, sys_link(Fresh(c), p, old, new), p, old, new)
C5Filled(s, w, p, fd, old, new) ==
  ~w.stop /\ w.r = Len(C5Src) /\ C5Saved(s, sys_close(Fresh(w), p, fd), p, old, new)
C5Born(s, c, p, old, new) ==
  ~c.stop /\ c.r >= 0 /\ C5Filled(s, sys_write(Fresh(c), p, c.r, C5Src), p, c.r, old, new)
C6Whole(one, n) == ~one.stop /\ one.r = n
C6Seen ==
  \E p \in Procs, fd \in Fds :
    /\ C6New(K, p, fd)
    /\ C6Whole(xv6fs_writei(ilock(Fresh(K), p, K.ftable[argfd(K, p, fd)].inode),
                            K.ftable[argfd(K, p, fd)].inode, 0, Pattern(WriteChunk + 1, 0)),
               WriteChunk + 1)
    /\ C6Case(K, p, fd, K.ftable[argfd(K, p, fd)].inode, Pattern(WriteChunk + 1, 0))

\* C7: a path of two elements was resolved twice, to the same inode
C7Twice(n1, p, path) == Named(n1) /\ C7Same(n1, namei(Fresh(n1), p, path))
C9Cleared(l, ip) ==
  /\ ~l.stop
  /\ l.itable[ip].type = T_DIR
  /\ l.itable[ip].size > 2 * DESZ
  /\ xv6fs_isdirempty(l, ip).r = 1
  /\ OnlyDots(l, ip)
  /\ DotsFirst(l, ip)
C9Found(n, p) == Named(n) /\ C9Cleared(ilock(n, p, n.r), n.r)
C9Seen ==
  \E p \in Procs, path \in Paths : Runs(K, p) /\ C9Found(namei(Fresh(K), p, path), p)

\* --------------------------------------------------------------- C11
\* open modes with O_TRUNC
O_CREATE_TRUNC == [acc |-> 2, create |-> TRUE, trunc |-> TRUE]
TruncModes == {O_TRUNC_WRONLY, O_CREATE_TRUNC}

\* o is the state after sys_open returned the descriptor o.r to p: the
\* inode-table slot of the file opened
OpenedSlot(o, p) == o.ftable[o.ofile[p][o.r]].inode

\* n is the state after namei(path), o the state after the sys_open: the file
\* is empty in memory and on disk, the blocks it had are free
C11Empty(n, o, p) ==
  /\ o.itable[OpenedSlot(o, p)].inum = n.itable[n.r].inum
  /\ o.itable[OpenedSlot(o, p)].size = 0
  /\ o.dinode[n.itable[n.r].inum].size = 0
  /\ \A b \in SlotBlocks(n, n.r) : ~o.bitmap[b]

C11Case(n, o, p) ==
  (Named(n) /\ n.itable[n.r].type = T_FILE /\ ~o.stop /\ o.r >= 0) => C11Empty(n, o, p)

C11Cut(n, o, p) ==
  /\ Named(n)
  /\ n.itable[n.r].type = T_FILE
  /\ n.itable[n.r].addrs[NDIRECT] # 0
  /\ ~o.stop
  /\ o.r >= 0
  /\ C11Empty(n, o, p)
First(e) == SubSeq(e, 1, MinOf(Len(e), DIRSIZ))

\* dir is the directory after the element e was linked in with number inum,
\* i the index of the entry found under e: the entry holds the bytes of a
\* DIRSIZ-byte or longer e, and is the one found under e2 exactly when e2 has
\* the first DIRSIZ bytes of e
C12Entry(dir, i, e, inum) ==
  /\ i # 0
  /\ dir[i].inum = inum
  /\ Len(e) >= DIRSIZ => \A j \in 1 .. DIRSIZ : dir[i].name[j] = e[j]
  /\ \A e2 \in Elems, buf \in {namebuf} :
       (LookupBytes(dir, skipelem(CPath(e2), buf).name) = i) <=> (First(e2) = First(e))

C12Link(e, name, inum) ==
  LookupBytes(dirents, name) = 0
    => C12Entry(LinkBytes(dirents, name, inum),
                LookupBytes(LinkBytes(dirents, name, inum), name), e, inum)

\* C12: a path element of exactly DIRSIZ bytes is stored by create and link and
\* found by dirlookup under the same DIRSIZ bytes; a longer element is treated
\* as its first DIRSIZ bytes; no element is matched on more than DIRSIZ bytes.
C12Names ==
  \A e \in Elems, inum \in LinkInums :
    C12Link(e, skipelem(CPath(e), namebuf).name, inum)

\* the directory holds a name of DIRSIZ bytes with no NUL, the name buffer was
\* left un-terminated, and an element longer than DIRSIZ can be linked in
C12Seen ==
  /\ \E i \in 1 .. Len(dirents) : \A j \in 1 .. DIRSIZ : dirents[i].name[j] # NUL
  /\ \A j \in 1 .. DIRSIZ : namebuf[j] # NUL
  /\ \E e \in Elems :
       /\ Len(e) > DIRSIZ
       /\ LookupBytes(dirents, skipelem(CPath(e), namebuf).name) = 0
       /\ C12Link(e, skipelem(CPath(e), namebuf).name, ROOTINO)

\* --------------------------------------------------------------- C13
C13Srcs == {Pattern(len, 1) : len \in {0, 1, BSIZE + 1, WriteChunk + 1}}

\* the file slot f is open for writing on an inode that is not a device
C13Writable(s, f) ==
  /\ s.ftable[f].ref > 0
  /\ s.ftable[f].writable
  /\ s.ftable[f].inode # NULL
  /\ s.itable[s.ftable[f].inode].valid
  /\ s.itable[s.ftable[f].inode].type # FD_DEVICE

\* the cell at off of the file in slot ip, as the in-memory inode maps it
C13Cell(s, ip, off) == CellOf(s, s.itable[ip].addrs, off)

\* w is the state filewrite left from s: f->off advanced by adv, the first adv
\* bytes of src in the file at the old offset, no other byte of the file
\* changed, the file as long as the bytes written make it
C13Kept(s, w, f, ip, src, adv) ==
  /\ adv \in 0 .. Len(src)
  /\ \A i \in 1 .. adv : C13Cell(w, ip, s.ftable[f].off + i - 1) = src[i]
  /\ \A off \in 0 .. s.itable[ip].size - 1 :
       (off < s.ftable[f].off \/ off >= s.ftable[f].off + adv)
         => C13Cell(w, ip, off) = C13Cell(s, ip, off)
  /\ w.itable[ip].size
       = (IF s.ftable[f].off + adv > s.itable[ip].size /\ adv > 0
          THEN s.ftable[f].off + adv ELSE s.itable[ip].size)

\* n is returned exactly when all of src went in, and -1 otherwise
C13Ret(w, src, adv) ==
  /\ (w.r = Len(src)) <=> (adv = Len(src))
  /\ w.r # Len(src) => w.r = 0 - 1

C13Write(s, w, f, src) ==
  ~w.stop
    => /\ C13Ret(w, src, w.ftable[f].off - s.ftable[f].off)
       /\ C13Kept(s, w, f, s.ftable[f].inode, src, w.ftable[f].off - s.ftable[f].off)

\* filewrite on a file that is not writable
C13Refused(s, w) == w = [s EXCEPT !.r = 0 - 1]

\* C13: filewrite on a writable file that is not a device returns n exactly
\* when every chunk was written in full; when a chunk is written short it
\* returns -1, the bytes written stay in the file and f->off has advanced by
\* the number of bytes written. filewrite on a file with writable == 0 returns
\* -1 and changes nothing.
C13Chunks ==
  \A p \in Procs, f \in FSlots, src \in C13Srcs :
    Runs(K, p)
      => /\ C13Writable(K, f) => C13Write(Fresh(K), filewrite(Fresh(K), p, f, src), f, src)
         /\ (K.ftable[f].ref > 0 /\ ~K.ftable[f].writable)
              => C13Refused(Fresh(K), filewrite(Fresh(K), p, f, src))

\* a first chunk went in whole and the next one short
C13Short(s, w, f, src) ==
  /\ ~w.stop
  /\ w.r = 0 - 1
  /\ w.ftable[f].off - s.ftable[f].off >= WriteChunk
  /\ w.ftable[f].off - s.ftable[f].off < Len(src)
C13Seen ==
  \E p \in Procs, f \in FSlots, src \in C13Srcs :
    /\ Runs(K, p)
    /\ C13Writable(K, f)
    /\ C13Short(Fresh(K), filewrite(Fresh(K), p, f, src), f, src)

\* --------------------------------------------------------------- C14
C14News == Paths \cup {PDB}

\* the directories of the disk hold in l what they hold in s
C14Dirs(s, l) ==
  \A i \in Inums : s.dinode[i].type = T_DIR => Content(l, i) = Content(s, i)

\* k is the state after namei(old) and ilock(ip) from s, l the state after the
\* sys_link: the link count of the inode is in l what it was, on disk and in
\* memory
C14Count(s, k, ip, l) ==
  /\ l.dinode[k.itable[ip].inum].nlink = s.dinode[k.itable[ip].inum].nlink
  /\ l.dinode[k.itable[ip].inum].nlink = k.itable[ip].nlink
  /\ \A i \in ISlots :
       (l.itable[i].ref > 0 /\ l.itable[i].valid /\ l.itable[i].inum = k.itable[ip].inum)
         => l.itable[i].nlink = k.itable[ip].nlink

\* sys_link got past ip->nlink++ and returned -1
C14Failed(k, ip, l) ==
  ~k.stop /\ k.itable[ip].type # T_DIR /\ ~l.stop /\ l.r = 0 - 1

C14Locked(s, k, ip, l) == C14Failed(k, ip, l) => (C14Count(s, k, ip, l) /\ C14Dirs(s, l))

\* n is the state after namei(old) from s
C14Case(s, n, l, p) == Named(n) => C14Locked(s, ilock(n, p, n.r), n.r, l)

C15Full(s, p) == FreeFiles(s) = {} \/ FreeFds(s, p) = {}

\* o is the state after the sys_open from s: it returned -1, every inode has
\* the references it had, every file slot that was free is free, and p holds
\* no inode's sleep-lock
C15Back(s, o, p) ==
  /\ ~o.stop
  /\ o.r = 0 - 1
  /\ \A ip \in ISlots : o.itable[ip].ref = s.itable[ip].ref
  /\ \A f \in FSlots : o.ftable[f].ref = s.ftable[f].ref
  /\ \A ip \in ISlots : o.itable[ip].lock # p

C15Case(s, n, o, p) ==
  (C15Full(s, p) /\ Named(n) /\ n.itable[n.r].type = T_FILE) => C15Back(s, o, p)

\* C15: when sys_open fails because no file-table slot is free or the process
\* has no free descriptor, it returns -1, every in-memory inode's ref is what
\* it was before the call, a file slot taken is free again, and the call
\* returns without blocking on an inode's sleep-lock or holding one.
C15Restored ==
  \A p \in Procs, path \in FilePaths :
    Runs(K, p)
      => C15Case(K, namei(Fresh(K), p, path), sys_open(Fresh(K), p, path, O_RDONLY), p)


\* --------------------------------------------------------------- C16
\* u is the state iput(ip) left from s, where ip had a reference
C16Lower(s, u, ip) == (~s.stop /\ ~u.stop) => u.itable[ip].ref = s.itable[ip].ref - 1

\* g is the state after an iget: the inode it returned is put
C16Got(g, p) == C16Lower(g, iput(g, p, g.r), g.r)

\* C16: for any inode with ref >= 1, in any lifecycle state, ALLOCATED (got
\* from iget and never locked, its private payload null) included, iput
\* leaves ref exactly one lower than before the call.
C16Dropped ==
  \A p \in Procs :
    Runs(K, p)
      => /\ \A ip \in ISlots :
              K.itable[ip].ref >= 1 => C16Lower(Fresh(K), iput(Fresh(K), p, ip), ip)
         /\ \A inum \in Inums : C16Got(iget(Fresh(K), ROOTDEV, inum), p)

\* --------------------------------------------------------------- C17
\* C17: every execution of iput (direct, through iunlockput or through
\* fileclose) reached from sys_open, sys_close, sys_link, sys_unlink,
\* sys_mkdir, sys_mknod and sys_chdir happens after a begin_op and before the
\* matching end_op of the same task: no system call enters iput outside a
\* transaction.
C17Bracketed ==
  \A p \in Procs :
    Runs(K, p)
      => /\ \A path \in Paths, omode \in Modes : ~sys_open(Fresh(K), p, path, omode).bare
         /\ \A fd \in Fds : ~sys_close(Fresh(K), p, fd).bare
         /\ \A old \in Paths, new \in Paths : ~sys_link(Fresh(K), p, old, new).bare
         /\ \A path \in Paths : ~sys_unlink(Fresh(K), p, path).bare
         /\ \A path \in Paths : ~sys_mkdir(Fresh(K), p, path).bare
         /\ \A path \in Paths, major \in Majors : ~sys_mknod(Fresh(K), p, path, major, 0).bare
         /\ \A path \in Paths : ~sys_chdir(Fresh(K), p, path).bare

\* --------------------------------------------------------------- C18
\* the file table of c with the slots below f in use
C18Below(c, f) ==
  [c EXCEPT !.ftable = [g \in FSlots |-> IF g < f /\ c.ftable[g].ref = 0
                                          THEN [c.ftable[g] EXCEPT !.ref = 1]
                                          ELSE c.ftable[g]]]

\* c is the state fileclose(f) left from s, where f had other references:
\* nothing is released
C18Shared(s, c, f) == c.iputs = s.iputs /\ c.itable = s.itable

\* c is the state fileclose(f) left from s, where f had its last reference:
\* the inode is put, once, and the slot is free for filealloc
C18Last(s, c, f) ==
  /\ c.iputs = s.iputs + 1
  /\ \A ip \in ISlots \ {s.ftable[f].inode} : c.itable[ip] = s.itable[ip]
  /\ c.ftable[f].ref = 0
  /\ filealloc(C18Below(c, f)).r = f

C18Closed(s, c, f) ==
  ~c.stop
    => /\ c.ftable[f].ref = s.ftable[f].ref - 1
       /\ IF s.ftable[f].ref > 1 THEN C18Shared(s, c, f) ELSE C18Last(s, c, f)

\* fileclose on a slot with no reference
C18Panic(s, c) == c.stop /\ c.panicked # "" /\ c.ftable = s.ftable /\ c.itable = s.itable

\* C18: fileclose on a file with ref r >= 1 leaves ref r-1; the release action
\* (iput of the file's inode) runs exactly once per open file, on the call
\* that takes ref to 0, and never while ref stays above 0; after that call the
\* slot is unused and filealloc can return it; fileclose on a file with
\* ref < 1 panics.
C18Release ==
  \A p \in Procs, f \in FSlots :
    Runs(K, p)
      => IF K.ftable[f].ref >= 1
         THEN C18Closed(Fresh(K), fileclose(Fresh(K), p, f), f)
         ELSE C18Panic(Fresh(K), fileclose(Fresh(K), p, f))

\* a file with two references was closed twice: the second close released it
C18Twice(s, c, d, f) == ~d.stop /\ C18Shared(s, c, f) /\ C18Last(c, d, f)
C18Seen ==
  \E p \in Procs, f \in FSlots :
    /\ Runs(K, p)
    /\ K.ftable[f].ref = 2
    /\ C18Twice(Fresh(K), fileclose(Fresh(K), p, f),
                fileclose(fileclose(Fresh(K), p, f), p, f), f)

\* --------------------------------------------------------------- C19
O_RDWR == [acc |-> 2, create |-> FALSE, trunc |-> FALSE]
DevMajors == 0 .. NDEV - 1

\* d is the state a fileread or filewrite left: one call, of the row major of
\* the device switch, with the user flag 1
C19Row(d, kind, major) ==
  ~d.stop => d.devcall = <<[kind |-> kind, row |-> major, user |-> 1]>>

\* o is the state after the device file was opened on the descriptor o.r of p
C19Opened(o, p, major) ==
  (~o.stop /\ o.r >= 0)
    => /\ C19Row(fileread(Fresh(o), p, o.ofile[p][o.r], 1), "read", major)
       /\ C19Row(filewrite(Fresh(o), p, o.ofile[p][o.r], Pattern(1, 0)), "write", major)

\* m is the state after sys_mknod(path, major, 0)
C19Made(m, p, path, major) ==
  (~m.stop /\ m.r = 0) => C19Opened(sys_open(Fresh(m), p, path, O_RDWR), p, major)

\* C19: fileread (and likewise filewrite) on a readable (writable) file whose
\* inode type is T_DEVICE calls the read (write) routine of the device-switch
\* row of the file's own major number, devsw[major], with the user flag 1,
\* for every major in 0 .. NDEV-1.
C19Dispatch ==
  \A p \in Procs, path \in FilePaths, major \in DevMajors :
    Runs(K, p) => C19Made(sys_mknod(Fresh(K), p, path, major, 0), p, path, major)


\* --------------------------------------------------------------- C20
\* u is the state a call left from s: it panicked, the inode table as it was
C20Panic(s, u) == u.stop /\ u.panicked # "" /\ u.itable = s.itable /\ u.hung = s.hung

\* u is the state iunlock(ip) left from k: the lock released, nothing else
\* changed
C20Free(k, u, ip) == u = [k EXCEPT !.itable[ip].lock = 0]

\* k is the state after ilock(ip) by p, from a state with the lock free
C20Held(k, p, ip) ==
  (~k.stop /\ holdingsleep(k, p, ip))
    => /\ C20Free(k, iunlock(k, p, ip), ip)
       /\ \A q \in Procs \ {p} : C20Panic(k, iunlock(k, q, ip))
       /\ k.itable[ip].ref = 1 => C20Panic(IputDrop(k, ip), iunlock(IputDrop(k, ip), p, ip))

\* C20: iunlock on an inode whose sleep-lock the calling task does not hold, or
\* whose ref is below 1, panics and does not release the lock; otherwise it
\* releases the sleep-lock and changes no other field. ilock on an inode with
\* ref < 1 panics without acquiring the lock.
C20Locks ==
  \A p \in Procs, ip \in ISlots :
    Runs(K, p)
      => /\ K.itable[ip].ref < 1 => C20Panic(Fresh(K), ilock(Fresh(K), p, ip))
         /\ ~holdingsleep(K, p, ip) => C20Panic(Fresh(K), iunlock(Fresh(K), p, ip))
         /\ K.itable[ip].ref >= 1 => C20Held(ilock(Fresh(K), p, ip), p, ip)

\* an inode with one reference was locked and unlocked, another has none
C20Seen ==
  \E p \in Procs, ip \in ISlots, jp \in ISlots :
    /\ Runs(K, p)
    /\ K.itable[ip].ref = 1
    /\ K.itable[jp].ref < 1
    /\ holdingsleep(ilock(Fresh(K), p, ip), p, ip)
    /\ ~ilock(Fresh(K), p, ip).stop
    /\ C20Held(ilock(Fresh(K), p, ip), p, ip)
    /\ C20Panic(Fresh(K), ilock(Fresh(K), p, jp))

\* --------------------------------------------------------------- C21
\* n is the state after a call made by p in s: every slot of itable has the
\* ref it had, and p holds no sleep-lock
C21Same(s, n, p) ==
  /\ \A i \in ISlots : n.itable[i].ref = s.itable[i].ref
  /\ \A i \in ISlots : n.itable[i].lock # p

\* n is the state after namex returned null
C21Null(s, n, p) == (~n.stop /\ n.r = NULL) => C21Same(s, n, p)

\* the paths with a component to look up
C21Paths == {path \in Paths : path.elems # <<>>}

\* C21: when namei or nameiparent returns null (a path component does not
\* exist, or a component to be searched is not a directory), every in-memory
\* inode has the ref it had before the call and the caller holds no inode
\* sleep-lock.
C21Lookup ==
  \A p \in Procs, path \in C21Paths, want_parent \in BOOLEAN :
    Runs(K, p) => C21Null(K, namex(Fresh(K), p, path, want_parent), p)

\* d is the state after namei("/d"), n after namex("/d/a"): /d is a regular
\* file and the lookup through it returned null
C21NotDir(d, n) ==
  /\ Named(d)
  /\ d.itable[d.r].type = T_FILE
  /\ ~n.stop
  /\ n.r = NULL
\* m is the state after namei of a path whose last component is missing
C21Missing(m) == ~m.stop /\ m.r = NULL
C21Seen ==
  \E p \in Procs :
    /\ Runs(K, p)
    /\ \E want_parent \in BOOLEAN :
         C21NotDir(namei(Fresh(K), p, PD), namex(Fresh(K), p, PDA, want_parent))
    /\ C21Missing(namei(Fresh(K), p, PB))
    /\ C21Same(K, namei(Fresh(K), p, PB), p)

\* --------------------------------------------------------------- C22
\* the descriptors of s whose file is on the inode in slot ip
Holders(s, ip) ==
  {h \in Procs \X Fds :
     s.ofile[h[1]][h[2]] # NULL /\ s.ftable[s.ofile[h[1]][h[2]]].inode = ip}

\* rd is the state after a read of the whole rest through a descriptor at
\* offset off: the content from off on is delivered
C22Read(rd, off, content) ==
  ~rd.stop /\ rd.out = SubSeq(content, off + 1, Len(content))

\* the file inum is still there in s: disk inode, blocks, content, and the
\* content is read through every readable descriptor of hs
C22Kept(s, inum, blocks, content, hs) ==
  /\ s.dinode[inum].type = T_FILE
  /\ \A b \in blocks : s.bitmap[b]
  /\ Content(s, inum) = content
  /\ \A h \in hs :
       (s.ftable[s.ofile[h[1]][h[2]]].readable
          /\ s.ftable[s.ofile[h[1]][h[2]]].off <= Len(content))
         => C22Read(sys_read(Fresh(s), h[1], h[2], MAXFILE * BSIZE),
                    s.ftable[s.ofile[h[1]][h[2]]].off, content)

\* the file inum is gone in s: disk inode free, blocks free
C22Gone(s, inum, blocks) ==
  /\ ~s.stop
  /\ s.dinode[inum].type = 0
  /\ \A b \in blocks : ~s.bitmap[b]

\* the descriptors hs closed one by one from s, in every order: the file is
\* kept until the last of them is closed and is gone after that
RECURSIVE C22Closes(_, _, _, _, _)
C22Closes(s, inum, blocks, content, hs) ==
  IF hs = {} THEN C22Gone(s, inum, blocks)
  ELSE /\ ~s.stop
       /\ C22Kept(s, inum, blocks, content, hs)
       /\ \A h \in hs :
            C22Closes(sys_close(Fresh(s), h[1], h[2]), inum, blocks, content, hs \ {h})

\* n is the state after namei(path): an open regular file with one link
C22File(s, n) ==
  /\ Named(n)
  /\ n.itable[n.r].type = T_FILE
  /\ n.itable[n.r].nlink = 1
  /\ Holders(s, n.r) # {}

C22Case(s, n, u) ==
  (C22File(s, n) /\ ~u.stop /\ u.r = 0)
    => C22Closes(u, n.itable[n.r].inum, BlocksOf(s, n.itable[n.r].inum),
                 Content(s, n.itable[n.r].inum), Holders(s, n.r))

\* C22: when the last link of a regular file is removed while descriptors are
\* open on it, its blocks and its disk inode stay allocated and its content
\* is read through the descriptors until the last of them is closed; that
\* close frees the blocks and the disk inode.
C22Deferred ==
  \A p \in Procs, path \in FilePaths :
    Runs(K, p)
      => C22Case(K, namei(Fresh(K), p, path), sys_unlink(Fresh(K), p, path))

\* a file with content and an indirect block, open on two descriptors, was
\* unlinked, kept over the first close and freed by the second
C22Two(s, n, u) ==
  /\ C22File(s, n)
  /\ Cardinality(Holders(s, n.r)) = 2
  /\ s.itable[n.r].addrs[NDIRECT] # 0
  /\ \E h \in Holders(s, n.r) : s.ftable[s.ofile[h[1]][h[2]]].off = 0
  /\ ~u.stop
  /\ u.r = 0
  /\ C22Closes(u, n.itable[n.r].inum, BlocksOf(s, n.itable[n.r].inum),
               Content(s, n.itable[n.r].inum), Holders(s, n.r))
C22Seen ==
  \E p \in Procs, path \in FilePaths :
    Runs(K, p) /\ C22Two(K, namei(Fresh(K), p, path), sys_unlink(Fresh(K), p, path))

\* --------------------------------------------------------------- C23
\* g is the state after iget: the slot it returned, referenced once more by
\* idup and then locked
C23Locked(g, p) == ilock(idup(g, g.r), p, g.r)

\* s is the state before the iget of an inode that is not in the table, g the
\* state after it, l the state after idup and ilock
C23Case(s, g, l, inum) ==
  (IgetHit(s, ROOTDEV, inum) = {} /\ ~g.stop /\ ~l.stop) => l.itable[g.r].ref = 2

\* l is the state after ilock of slot ip in s
C23Frame(s, l, ip) == (s.itable[ip].ref >= 1 /\ ~l.stop) => l.itable[ip].ref = s.itable[ip].ref

\* C23: ilock on an inode with ref >= 1 leaves ref as it is, also when it
\* loads the inode from disk: after iget of an inode not in the table, idup
\* and ilock the ref is 2.
C23Ref ==
  \A p \in Procs :
    Runs(K, p)
      => /\ \A ip \in ISlots : C23Frame(K, ilock(Fresh(K), p, ip), ip)
         /\ \A inum \in Inums :
              C23Case(K, iget(Fresh(K), ROOTDEV, inum),
                      C23Locked(iget(Fresh(K), ROOTDEV, inum), p), inum)

\* --------------------------------------------------------------- C24
\* the references to slot i that the processes and the mount hold between
\* system calls: the root of the mounted file system, the working
\* directories, the open files
Owned(i) ==
  (IF i = 0 THEN 1 ELSE 0)
    + Cardinality({p \in Procs : cwd[p] = i})
    + Cardinality({f \in FSlots : ftable[f].ref > 0 /\ ftable[f].inode = i})

\* the tasks whose call returned slot i
Got(i) == {t \in Procs : pc[t] = "held" /\ loc[t].ret = i}

\* C24: when two tasks run iget with preemption between any two statements,
\* two calls for the same (dev, inum) return the same slot with ref raised
\* by 2, and two calls for different pairs return different slots: each slot
\* returned holds the pair asked for and counts the references taken.
C24Atomic ==
  (\A t \in Procs : pc[t] = "held")
    => /\ \A t \in Procs :
            /\ itable[loc[t].ret].dev = loc[t].dev
            /\ itable[loc[t].ret].inum = loc[t].inum
       /\ \A t, u \in Procs : (loc[t].inum = loc[u].inum) <=> (loc[t].ret = loc[u].ret)
       /\ \A i \in ISlots : itable[i].ref = Owned(i) + Cardinality(Got(i))

\* --------------------------------------------------------------- C25
\* the tasks that hold file slot f, taken by filealloc
GotFile(f) == {t \in Procs : loc[t].ret = f /\ loc[t].n > 0}

\* the descriptors on file slot f
Descs(f) == {h \in Procs \X Fds : ofile[h[1]][h[2]] = f}

\* the references the task t holds on file slot f
HeldBy(t, f) == IF loc[t].ret = f THEN loc[t].n ELSE 0

\* no task is inside a function
AtRest == \A t \in Procs : pc[t] \in {"idle", "held", "closed", "none"}

\* C25: when two tasks run filealloc with preemption between the test
\* ref == 0 and the assignment ref = 1, they never get the same slot of
\* ftable; and concurrent filedup and fileclose lose no update of ref: with
\* no task inside a function the ref of a file counts its holders.
C25Distinct ==
  /\ \A f \in FSlots : Cardinality(GotFile(f)) <= 1
  /\ AtRest
       => \A f \in FSlots :
            ftable[f].ref = Cardinality(Descs(f)) + HeldBy(1, f) + HeldBy(2, f)

\* --------------------------------------------------------------- C26
\* task t holds a reference xv6fs_geti returned: the slot is in use, loaded,
\* and holds the inode asked for
C26Held(t) ==
  pc[t] = "held"
    => /\ itable[loc[t].ret].ref >= 1
       /\ itable[loc[t].ret].valid
       /\ itable[loc[t].ret].dev = loc[t].dev
       /\ itable[loc[t].ret].inum = loc[t].inum

\* task t is at an acquiresleep of iput: the lock is free
C26Free(t) == pc[t] \in {"iput:acquire0", "iput:acquire1"} => itable[loc[t].ip].lock = 0

\* C26: under any interleaving of iput with xv6fs_geti on the same inode, a
\* task that holds a reference never finds its slot with ref 0, without its
\* private payload, or with another (dev, inum); and the acquiresleep of iput
\* never finds the lock taken.
C26Safe == \A t \in Procs : C26Held(t) /\ C26Free(t)

\* --------------------------------------------------------------- C27
\* the calls of sys_open, sys_mkdir, sys_mknod, sys_link, sys_unlink and
\* sys_chdir that process p can make
C27Calls(p) ==
  {COpen(p, path, omode) : path \in Paths, omode \in Modes}
    \cup {CMkdir(p, path) : path \in Paths}
    \cup {[Call("mknod", p) EXCEPT !.path = path, !.n = CONSOLE] : path \in Paths}
    \cup {CLink(p, old, new) : old \in Paths, new \in Paths}
    \cup {CUnlink(p, path) : path \in Paths}
    \cup {CChdir(p, path) : path \in Paths}

\* c is the state after a call of p: every sleep-lock it took while it held
\* another was that of a child of the directory held, and the call has not
\* gone to sleep for ever
C27Call(c, p) == ~c.cross /\ p \notin c.hung

\* C27: in the calls of sys_open, sys_mkdir, sys_mknod, sys_link, sys_unlink
\* and sys_chdir a task that holds an inode sleep-lock and takes another
\* (the acquiresleep of iput included) holds the parent directory of the
\* inode it locks, and every call returns.
C27Ordered ==
  \A p \in Procs : Runs(K, p) => \A c \in C27Calls(p) : C27Call(After(K, c), p)

\* --------------------------------------------------------------- C28
\* the directories of the disk: the inodes in use of type T_DIR
DiskDirs(s) == {i \in Inums : s.dinode[i].type = T_DIR}

\* the offsets of the entries in use of the directory with disk inode i
Live(s, i) ==
  {off \in 0 .. s.dinode[i].size - 1 : DeInum(CellOf(s, s.dinode[i].addrs, off)) # 0}

\* no directory of the disk has two entries in use with equal names
NoTwins(s) ==
  \A i \in DiskDirs(s) : \A a \in Live(s, i), b \in Live(s, i) :
    a # b => DeNameIdx(CellOf(s, s.dinode[i].addrs, a)) # DeNameIdx(CellOf(s, s.dinode[i].addrs, b))

\* where a task is between its dirlookup of the name and the write of the
\* entry: create from dirlookup on, xv6fs_link (which sys_link calls) from
\* its dirlookup on
BetweenLookAndWrite == {"create:alloc", "create:exists", "link:look", "link:write", "link:written"}

\* the entries in use of the directory with disk inode i that have the name
EntriesNamed(s, i, name) ==
  {off \in Live(s, i) : DeNameIdx(CellOf(s, s.dinode[i].addrs, off)) = NameIdx(name)}

\* task t has ended a call that named an entry of a directory it reached
Ended(t) == pc[t] = "done" /\ loc[t].dp # NULL /\ loc[t].name # ""

\* the directory task t made its entry in
DirOf(t) == itable[loc[t].dp].inum

C29Call(k, s) ==
  IF \E b \in Blocks : ~k.bitmap[b]
  THEN /\ s.r \in Blocks
       /\ ~k.bitmap[s.r]
       /\ s.bitmap[s.r]
       /\ \A b \in Blocks \ {s.r} : s.bitmap[b] = k.bitmap[b]
       /\ s.data[s.r] = ZeroBlock
  ELSE s = [k EXCEPT !.r = 0]

\* C29: balloc returns a block whose bitmap bit was clear before the call and
\* is set after it, leaves every other bit unchanged and the block
\* zero-filled; when every bit is set it returns 0 and changes nothing; two
\* balloc calls with no bfree in between never return the same block.
C29Balloc ==
  /\ C29Call(K, balloc(K))
  /\ C29Call(balloc(K), balloc(balloc(K)))
  /\ balloc(K).r # 0 => balloc(balloc(K)).r # balloc(K).r

\* one block is left: balloc returns it, and the next balloc returns 0
C29Seen ==
  /\ Cardinality(FreeBlocks(K)) = 1
  /\ balloc(K).r # 0
  /\ balloc(balloc(K)).r = 0

\* --------------------------------------------------------------- C30
\* task t has returned from xv6fs_ialloc with an inode
Allocated(t) == pc[t] = "ialloc:ret" /\ loc[t].ret # NULL

\* C30: xv6fs_ialloc returns an inode whose on-disk type was 0 before the
\* call and is non-zero after it, with a reference of the caller's in
\* memory, and two calls, sequential or concurrent, never return the same
\* inum while both inodes are allocated: the inode a task got has the inum
\* the task marked, and two tasks hold inodes of different inums.
C30Distinct ==
  /\ \A t \in Procs :
       Allocated(t) =>
         /\ itable[loc[t].ret].inum = loc[t].inum
         /\ dinode[loc[t].inum].type # 0
         /\ itable[loc[t].ret].ref >= 1
  /\ \A t \in Procs, u \in Procs :
       t # u /\ Allocated(t) /\ Allocated(u)
         => itable[loc[t].ret].inum # itable[loc[u].ret].inum

\* --------------------------------------------------------------- C31
\* the slots xv6fs_writei is called on: loaded inodes that are in use
C31Slots(s) == {ip \in ISlots : s.itable[ip].ref > 0 /\ s.itable[ip].valid /\ s.itable[ip].op}

\* the offsets and the counts of the calls: a count goes with its cells, or
\* is one no file can hold and comes without cells
C31Offs == 0 .. MAXFILE * BSIZE + 1
C31Writes ==
  {<<src, Len(src)>> : src \in Srcs \cup {<<>>}}
    \cup {<<(<<>>), n>> : n \in {MAXFILE * BSIZE + 1, UINT_SPAN - 1}}

\* the call is one xv6fs_writei rejects
C31Rejected(k, ip, off, n) ==
  \/ off > k.itable[ip].size
  \/ off + n >= UINT_SPAN
  \/ off + n > MAXFILE * BSIZE

\* s is the state xv6fs_writei(ip, off, n) leaves when called in k
C31Call(k, s, ip, off, n) ==
  IF C31Rejected(k, ip, off, n) THEN s = [k EXCEPT !.r = -1]
  ELSE \/ s.stop
       \/ /\ s.r \in 0 .. n
          /\ s.itable[ip].size = (IF off + s.r > k.itable[ip].size THEN off + s.r
                                  ELSE k.itable[ip].size)
          /\ s.itable[ip].size >= k.itable[ip].size

\* C31: xv6fs_writei returns -1 and changes neither the inode, the bitmap nor
\* a data block when off > size, when off + n wraps or when off + n exceeds
\* MAXFILE*BSIZE; otherwise the size after the call is the larger of the old
\* size and off + the count written, never smaller than before.
C31Writei ==
  \A ip \in C31Slots(K), off \in C31Offs, w \in C31Writes :
    C31Call(K, WriteCount(K, ip, off, w[1], w[2]), ip, off, w[2])

\* a file that a write of BSIZE + 1 cells at its end only partly extends, for
\* want of blocks, and on which the three rejections happen
C31Seen ==
  \E ip \in C31Slots(K) :
    /\ K.itable[ip].type = T_FILE
    /\ K.itable[ip].size > 0
    /\ WriteCount(K, ip, K.itable[ip].size, Pattern(BSIZE + 1, 0), BSIZE + 1).r \in 1 .. BSIZE
    /\ WriteCount(K, ip, K.itable[ip].size + 1, Pattern(1, 0), 1).r = -1
    /\ WriteCount(K, ip, 1, <<>>, UINT_SPAN - 1).r = -1
    /\ WriteCount(K, ip, 0, <<>>, MAXFILE * BSIZE + 1).r = -1

\* --------------------------------------------------------------- C32
\* the disk inode path names for process p in s, 0 if it names none
C32Inum(s, p, path) ==
  IF namei(s, p, path).stop \/ namei(s, p, path).r = NULL THEN 0
  ELSE namei(s, p, path).itable[namei(s, p, path).r].inum

\* the disk (inodes, bitmap, blocks) and the ref and the lock of every slot
\* are in s what they are in k
C32Same(k, s) ==
  /\ s.dinode = k.dinode
  /\ s.bitmap = k.bitmap
  /\ s.data = k.data
  /\ \A i \in ISlots : s.itable[i].ref = k.itable[i].ref /\ s.itable[i].lock = k.itable[i].lock

\* c is the state create(path, T_FILE, 0, 0) leaves: the inode inum, locked
\* by p, and the disk as it was
C32Found(k, c, p, inum) ==
  /\ ~c.stop
  /\ c.r # NULL
  /\ c.itable[c.r].inum = inum
  /\ c.itable[c.r].lock = p
  /\ c.dinode = k.dinode /\ c.bitmap = k.bitmap /\ c.data = k.data

\* s is the state a failed system call leaves
C32Failed(k, s) == ~s.stop /\ s.r = -1 /\ C32Same(k, s)

\* the calls on the name path, which exists with the disk inode inum
C32Case(k, p, path, inum) ==
  /\ k.dinode[inum].type \in {T_FILE, T_DEVICE}
       => C32Found(k, create(k, p, path, T_FILE, 0, 0), p, inum)
  /\ k.dinode[inum].type = T_DIR => C32Failed(k, sys_open(k, p, path, O_CREATE_RDWR))
  /\ C32Failed(k, sys_mkdir(k, p, path))
  /\ C32Failed(k, sys_mknod(k, p, path, CONSOLE, 0))

\* C32: create with T_FILE on a name that exists as a regular file or a
\* device returns that inode locked and allocates nothing and changes neither
\* the directory nor the file; create with T_DIR or T_DEVICE on an existing
\* name, or with T_FILE on an existing directory, fails, the system call
\* returns -1, and no inode, directory entry, bitmap bit or ref has changed.
C32Exists ==
  \A p \in Procs, path \in Paths \ {PEmpty} :
    Runs(K, p) /\ C32Inum(Fresh(K), p, path) # 0
      => C32Case(Fresh(K), p, path, C32Inum(Fresh(K), p, path))

\* a file and a directory exist, and the calls on them take both ways
C32Seen ==
  \E p \in Procs :
    /\ Runs(K, p)
    /\ C32Inum(Fresh(K), p, PDA) # 0
    /\ K.dinode[C32Inum(Fresh(K), p, PDA)].type = T_FILE
    /\ K.dinode[C32Inum(Fresh(K), p, PD)].type = T_DIR
    /\ create(Fresh(K), p, PDA, T_FILE, 0, 0).r # NULL
    /\ sys_mkdir(Fresh(K), p, PDA).r = -1
    /\ sys_open(Fresh(K), p, PD, O_CREATE_RDWR).r = -1

\* --------------------------------------------------------------- C33
\* the disk inode of the directory that holds the last element of path
C33Parent(s, p, path) ==
  IF nameiparent(s, p, path).stop \/ nameiparent(s, p, path).r = NULL THEN 0
  ELSE nameiparent(s, p, path).itable[nameiparent(s, p, path).r].inum

\* m is k after mkdir made the directory c in the directory d
C33Made(k, m, c, d) ==
  /\ c # 0 /\ d # 0
  /\ k.dinode[c].type = 0
  /\ m.dinode[c].type = T_DIR
  /\ m.dinode[c].nlink = 1
  /\ m.dinode[c].size >= 2 * DESZ
  /\ CellOf(m, m.dinode[c].addrs, 0) = DirentEnc(c, ".")
  /\ CellOf(m, m.dinode[c].addrs, DESZ) = DirentEnc(d, "..")
  /\ m.dinode[d].nlink = k.dinode[d].nlink + 1

\* u is m after unlink removed the directory c, named name, from d
C33Undone(k, m, u, c, d, name) ==
  /\ u.dinode[d].nlink = k.dinode[d].nlink
  /\ EntriesNamed(u, d, name) = {}
  /\ u.dinode[c].type = 0
  /\ \A b \in BlocksOf(m, c) : ~u.bitmap[b]

\* the call mkdir(path) of p in k, which left m, and the unlink after it
C33Pair(k, m, p, path) ==
  (~m.stop /\ m.r = 0)
    => /\ C33Made(k, m, C32Inum(Fresh(m), p, path), C33Parent(k, p, path))
       /\ (~sys_unlink(Fresh(m), p, path).stop /\ sys_unlink(Fresh(m), p, path).r = 0)
            => C33Undone(k, m, sys_unlink(Fresh(m), p, path), C32Inum(Fresh(m), p, path),
                         C33Parent(k, p, path), path.elems[Len(path.elems)])

\* C33: after a successful mkdir(p) the new directory has nlink 1, its first
\* two entries are "." with its own inum and ".." with the parent's inum, and
\* the parent's nlink is one greater than before; after a following
\* successful unlink(p) the parent's nlink is back at its earlier value, the
\* parent has no entry in use for the name, and the disk inode and the blocks
\* of the child are free.
C33MkdirUnlink ==
  \A p \in Procs, path \in Paths :
    Runs(K, p) => C33Pair(Fresh(K), sys_mkdir(Fresh(K), p, path), p, path)

\* a mkdir and the unlink after it both succeed
C33Seen ==
  \E p \in Procs, path \in Paths :
    /\ Runs(K, p)
    /\ ~sys_mkdir(Fresh(K), p, path).stop
    /\ sys_mkdir(Fresh(K), p, path).r = 0
    /\ ~sys_unlink(Fresh(sys_mkdir(Fresh(K), p, path)), p, path).stop
    /\ sys_unlink(Fresh(sys_mkdir(Fresh(K), p, path)), p, path).r = 0

\* --------------------------------------------------------------- C34
\* create(path, type) of p in k goes as far as xv6fs_ialloc and that call
\* has a free disk inode to take: the parent is there, the name is not
C34Allocates(k, p, path) ==
  /\ C33Parent(k, p, path) # 0
  /\ C32Inum(k, p, path) = 0
  /\ FreeInums(k) # {}

\* /d is full with ".", ".." and a, and the disk has one free block left
ScriptOneFree ==
  <<CMkdir(1, PD), COpen(1, PDA, O_CREATE_RDWR), CClose(1, 0), COpen(1, PA, O_CREATE_RDWR),
    CWrite(1, 0, Pattern(NDIRECT * BSIZE + 1, 0))>>
InitTight == NoNames /\ StartIn(Run(Boot, ScriptOneFree))
\* behaviours on a disk with one free block
SpecTight == InitTight /\ [][Next]_vars

\* c is k after a create that failed with the disk inode i allocated, for the
\* name name in the directory d
C34Undone(k, c, i, d, name) ==
  /\ c.dinode[i].type = 0
  /\ BlocksOf(c, i) = {}
  /\ \A b \in Blocks : c.bitmap[b] => k.bitmap[b] \/ b \in BlocksOf(c, d)
  /\ c.dinode[d].nlink = k.dinode[d].nlink
  /\ EntriesNamed(c, d, name) = {}
  /\ \A s \in ISlots : c.itable[s].lock = k.itable[s].lock /\ c.itable[s].ref = k.itable[s].ref

\* the create of p in k that left c
C34Call(k, c, p, path) ==
  (C34Allocates(k, p, path) /\ ~c.stop /\ c.r = NULL)
    => C34Undone(k, c, Min(FreeInums(k)), C33Parent(k, p, path), path.elems[Len(path.elems)])

CreateTypes == {T_FILE, T_DIR, T_DEVICE}
\* the paths of the calls: those of the system calls and a new name in /d
C34Paths == Paths \cup {PDB}

RECURSIVE C35Walk(_, _, _)
C35Walk(s, i, elems) ==
  IF elems = <<>> \/ i = 0 THEN i
  ELSE IF s.dinode[i].type # T_DIR \/ EntriesNamed(s, i, Head(elems)) = {} THEN 0
  ELSE C35Walk(s, DeInum(CellOf(s, s.dinode[i].addrs, Min(EntriesNamed(s, i, Head(elems))))),
               Tail(elems))

\* the directory that holds the last element of path, for process p
C35Dir(s, p, path) ==
  C35Walk(s, IF path.abs THEN ROOTINO ELSE s.itable[s.cwd[p]].inum,
          SubSeq(path.elems, 1, Len(path.elems) - 1))

C35Paths == Paths \cup {PDB, PRoot}

\* n is k after a nameiparent that returned the directory d with the name
C35Returned(k, n, d, name) ==
  /\ ~n.stop
  /\ n.r # NULL
  /\ n.itable[n.r].inum = d
  /\ n.name = name
  /\ \A s \in ISlots :
       /\ n.itable[s].lock = k.itable[s].lock
       /\ n.itable[s].ref = k.itable[s].ref + (IF s = n.r THEN 1 ELSE 0)
  /\ n.itable[n.r].lock = 0

\* n is k after a nameiparent that found no element
C35Null(k, n) ==
  ~n.stop /\ n.r = NULL /\ \A s \in ISlots : n.itable[s].ref = k.itable[s].ref

\* the call nameiparent(path) of p in k, which left n
C35Call(k, n, p, path) ==
  IF path.elems = <<>> THEN C35Null(k, n)
  ELSE (C35Dir(k, p, path) # 0 /\ k.dinode[C35Dir(k, p, path)].type = T_DIR)
         => C35Returned(k, n, C35Dir(k, p, path), path.elems[Len(path.elems)])

\* C35: nameiparent on a path with at least one element whose leading
\* components resolve returns the unlocked inode of the directory that
\* holds the last element, with exactly one new reference, the caller's, and
\* name set to the last element, whether that element exists or not; on a
\* path with no element it returns null and leaves every ref as it was.
C35Parent ==
  \A p \in Procs, path \in C35Paths :
    Runs(K, p) => C35Call(Fresh(K), nameiparent(Fresh(K), p, path), p, path)

\* /d is there and not in the inode table: nameiparent returns it for a name
\* it does not hold, and returns null for the path without elements
C35Seen ==
  \E p \in Procs :
    /\ Runs(K, p)
    /\ C35Dir(K, p, PDB) \notin {0, ROOTINO}
    /\ \A s \in ISlots : K.itable[s].ref > 0 => K.itable[s].inum # C35Dir(K, p, PDB)
    /\ EntriesNamed(K, C35Dir(K, p, PDB), "b") = {}
    /\ C35Returned(Fresh(K), nameiparent(Fresh(K), p, PDB), C35Dir(K, p, PDB), "b")
    /\ C35Null(Fresh(K), nameiparent(Fresh(K), p, PRoot))

\* --------------------------------------------------------------- C36
\* the kernel states the calls of p leave when made in s
C36Results(s, p) ==
  {namei(s, p, path) : path \in Paths}
    \cup {sys_open(s, p, path, omode) : path \in Paths, omode \in Modes}
    \cup {sys_link(s, p, old, new) : old \in Paths, new \in Paths}
    \cup {sys_unlink(s, p, path) : path \in Paths}
    \cup {sys_mkdir(s, p, path) : path \in Paths}
    \cup {sys_chdir(s, p, path) : path \in Paths}

\* C36: every dentry buffer allocated by dirlookup, by create, by sys_link
\* and by sys_unlink is freed before the call that allocated it returns:
\* after a completed namei, open, link, unlink, mkdir or chdir as many dentry
\* buffers are live as before it.
C36Freed ==
  \A p \in Procs :
    Runs(K, p) => \A c \in C36Results(Fresh(K), p) : ~c.stop => c.dentries = 0

\* --------------------------------------------------------------- C37
\* the kernel states the calls of p that name inodes without keeping them
\* leave when made in s
C37Results(s, p) ==
  {sys_link(s, p, old, new) : old \in Paths, new \in Paths}
    \cup {sys_unlink(s, p, path) : path \in Paths}
    \cup {sys_mkdir(s, p, path) : path \in Paths}
    \cup {sys_mknod(s, p, path, major, 0) : path \in Paths, major \in Majors}
    \cup {sys_fstat(s, p, fd) : fd \in Fds}

\* C37: after a completed sys_link, sys_unlink, sys_mkdir, sys_mknod or
\* sys_fstat, successful or failed, every in-memory inode has the ref it
\* had before the call: the inodes that open files, working directories and
\* the root refer to keep theirs, and those the call alone touched are back
\* at 0.
C37Retained ==
  \A p \in Procs :
    Runs(K, p)
      => \A c \in C37Results(Fresh(K), p) :
           ~c.stop => \A s \in ISlots : c.itable[s].ref = K.itable[s].ref

\* a link, an unlink, a mkdir and a failed link have run on inodes that were
\* not in the inode table, beside an inode that an open file refers to
C37Seen ==
  \E p \in Procs :
    /\ Runs(K, p)
    /\ \E s \in ISlots : K.itable[s].ref > 0 /\ K.itable[s].inum # ROOTINO
    /\ \E s \in ISlots : K.itable[s].ref = 0
    /\ \E old \in Paths, new \in Paths :
         ~sys_link(Fresh(K), p, old, new).stop /\ sys_link(Fresh(K), p, old, new).r = 0
    /\ \E old \in Paths, new \in Paths :
         ~sys_link(Fresh(K), p, old, new).stop /\ sys_link(Fresh(K), p, old, new).r = -1
    /\ \E path \in Paths :
         ~sys_unlink(Fresh(K), p, path).stop /\ sys_unlink(Fresh(K), p, path).r = 0
    /\ \E path \in Paths :
         ~sys_mkdir(Fresh(K), p, path).stop /\ sys_mkdir(Fresh(K), p, path).r = 0
    /\ \E fd \in Fds : ~sys_fstat(Fresh(K), p, fd).stop /\ sys_fstat(Fresh(K), p, fd).r = 0

\* --------------------------------------------------------------- C38
\* the places of the disk inode i that hold a block number: <<i, j>> for
\* addrs[j], <<i, NDIRECT + j>> for entry j of the indirect block
C38Places(s, i) ==
  {<<i, j>> : j \in {j \in 0 .. NDIRECT : s.dinode[i].addrs[j] # 0}}
    \cup (IF s.dinode[i].addrs[NDIRECT] = 0 THEN {}
          ELSE {<<i, NDIRECT + j>> :
                  j \in {j \in 1 .. NINDIRECT : s.data[s.dinode[i].addrs[NDIRECT]][j] # 0}})

\* the block number at a place
C38At(s, pl) ==
  IF pl[2] <= NDIRECT THEN s.dinode[pl[1]].addrs[pl[2]]
  ELSE s.data[s.dinode[pl[1]].addrs[NDIRECT]][pl[2] - NDIRECT]

\* the places of the allocated disk inodes
C38All(s) == UNION {C38Places(s, i) : i \in {i \in Inums : s.dinode[i].type # 0}}

\* C38: in every state reached by create, write, open with O_TRUNC, link,
\* unlink and close, every block number in an allocated inode's addrs or
\* indirect block is set in the bitmap and stands at exactly one place of
\* one inode, bfree's "freeing free block" panic does not happen, and no
\* data block is set in the bitmap that no inode refers to.
C38Owned ==
  /\ \A pl \in C38All(K) : K.bitmap[C38At(K, pl)]
  /\ \A pl \in C38All(K), pm \in C38All(K) : C38At(K, pl) = C38At(K, pm) => pl = pm
  /\ panicked # "freeing free block"
  /\ \A b \in Blocks : (b >= NMETA /\ K.bitmap[b]) => \E pl \in C38All(K) : C38At(K, pl) = b

\* a file holds blocks through its indirect block and a block below a block
\* in use is free: a block has been freed since the blocks were handed out
C38Seen ==
  /\ \E pl \in C38All(K) : pl[2] > NDIRECT
  /\ \E b \in Blocks, c \in Blocks : b < c /\ ~K.bitmap[b] /\ K.bitmap[c]

\* --------------------------------------------------------------- C39
\* the kernel states the system calls of p that lock inodes leave when made
\* in s
C39Results(s, p) ==
  {sys_open(s, p, path, omode) : path \in Paths, omode \in Modes}
    \cup {sys_read(s, p, fd, n) : fd \in Fds, n \in Counts}
    \cup {sys_write(s, p, fd, src) : fd \in Fds, src \in Srcs}
    \cup {sys_fstat(s, p, fd) : fd \in Fds}
    \cup {sys_link(s, p, old, new) : old \in Paths, new \in Paths}
    \cup {sys_unlink(s, p, path) : path \in Paths}
    \cup {sys_mkdir(s, p, path) : path \in Paths}
    \cup {sys_mknod(s, p, path, major, 0) : path \in Paths, major \in Majors}
    \cup {sys_chdir(s, p, path) : path \in Paths}

\* the inode slots whose sleep-lock p holds
C39Held(s, p) == {ip \in ISlots : s.itable[ip].lock = p}

\* the panics of an iunlock that no ilock of the caller's went before
IunlockPanics == {"iunlock", "iunlock: no lock", "iunlock: no ref", "iunlock: no inode"}

\* C39: when sys_open, sys_read, sys_write, sys_fstat, sys_link, sys_unlink,
\* sys_mkdir, sys_mknod or sys_chdir returns, on its success path and on
\* every failure path, the calling task holds no inode sleep-lock, and every
\* ilock it made was matched by one iunlock of the same inode: none is left
\* held and no iunlock finds the lock not held.
C39Released ==
  \A p \in Procs :
    Runs(K, p)
      => /\ C39Held(K, p) = {}
         /\ \A c \in C39Results(Fresh(K), p) :
              /\ ~c.stop => C39Held(c, p) = {}
              /\ c.panicked \notin IunlockPanics

\* calls of p return by success and by failure with its locks released: an
\* open that truncates, a mkdir of a name that exists, an unlink, a link that
\* fails, a write and an fstat
C39Seen ==
  \E p \in Procs :
    /\ Runs(K, p)
    /\ \E path \in Paths :
         /\ ~sys_open(Fresh(K), p, path, O_TRUNC_WRONLY).stop
         /\ sys_open(Fresh(K), p, path, O_TRUNC_WRONLY).r >= 0
         /\ C39Held(sys_open(Fresh(K), p, path, O_TRUNC_WRONLY), p) = {}
    /\ \E path \in Paths :
         /\ C32Inum(Fresh(K), p, path) # 0
         /\ ~sys_mkdir(Fresh(K), p, path).stop
         /\ sys_mkdir(Fresh(K), p, path).r = -1
         /\ C39Held(sys_mkdir(Fresh(K), p, path), p) = {}
    /\ \E path \in Paths :
         /\ ~sys_unlink(Fresh(K), p, path).stop
         /\ sys_unlink(Fresh(K), p, path).r = 0
         /\ C39Held(sys_unlink(Fresh(K), p, path), p) = {}
    /\ \E old \in Paths, new \in Paths :
         /\ C32Inum(Fresh(K), p, old) # 0
         /\ ~sys_link(Fresh(K), p, old, new).stop
         /\ sys_link(Fresh(K), p, old, new).r = -1
         /\ C39Held(sys_link(Fresh(K), p, old, new), p) = {}
    /\ \E fd \in Fds, src \in Srcs :
         /\ ~sys_write(Fresh(K), p, fd, src).stop
         /\ sys_write(Fresh(K), p, fd, src).r > 0
         /\ ~sys_fstat(Fresh(K), p, fd).stop
         /\ sys_fstat(Fresh(K), p, fd).r = 0
         /\ C39Held(sys_fstat(Fresh(K), p, fd), p) = {}

\* --------------------------------------------------------------- C40
\* c is the state sys_pipe left with the descriptors out[1] and out[2]: the
\* calls on them do not stop the kernel
C40Sound(c, p) ==
  /\ \A n \in Counts : sys_read(Fresh(c), p, c.out[1], n).panicked = ""
  /\ \A src \in Srcs : sys_write(Fresh(c), p, c.out[2], src).panicked = ""
  /\ \A fd \in {c.out[1], c.out[2]} : sys_fstat(Fresh(c), p, fd).panicked = ""

\* C40: on an open file that is a pipe end, whose inode pointer is null,
\* fileread, filewrite and filestat do not dereference the inode pointer: a
\* read or a write on a descriptor that sys_pipe returned completes without
\* a fault.
C40NoFault ==
  \A p \in Procs :
    (Runs(K, p) /\ ~sys_pipe(Fresh(K), p).stop /\ sys_pipe(Fresh(K), p).r = 0)
      => C40Sound(sys_pipe(Fresh(K), p), p)
====
